---- MODULE Spec2Model ----
(***************************************************************************)
(* A model of the NVM slab allocator (qingfengyu2489674/nvm_malloc).       *)
(*                                                                         *)
(* The allocator is the two-level version of src/src/NvmAllocator.c        *)
(* (second translation unit of that file, lines 376-790): a central heap   *)
(* {space manager, slab hash table, global mutex} and one heap per CPU.    *)
(* Slabs are src/src/NvmSlab.c, the space manager is                       *)
(* src/src/NvmSpaceManager.c and the index is src/src/SlabHashTable.c.     *)
(*                                                                         *)
(* Sizes are scaled: the region is a few slabs, a slab is a few blocks of  *)
(* the largest size classes and the ring buffer has a few entries.  All    *)
(* arithmetic is the arithmetic of the source.                             *)
(***************************************************************************)
EXTENDS Integers, Sequences, FiniteSets, TLC

(***************************************************************************)
(* Bounds and scaled configuration                                         *)
(***************************************************************************)
\* log2 of the slab size: 21 in the source (2 MiB), scaled so that the 4K
\* class has 1 block per slab and the 512-byte class has 8.
SlabShift == 12
\* NvmDefs.h: NVM_SLAB_SIZE, a power of two that every block size divides.
NVM_SLAB_SIZE == 2 ^ SlabShift
\* NvmDefs.h: SLAB_CACHE_SIZE is 64 in the source.
SLAB_CACHE_SIZE == 4
\* NvmConfig.h: MAX_CPUS is 64 in the source.
MAX_CPUS == 2
\* NvmDefs.h: INITIAL_HASHTABLE_CAPACITY is 101 in the source.
INITIAL_HASHTABLE_CAPACITY == 2
\* Number of whole slab extents of the region handed to nvm_allocator_create.
TotalSlabs == 3
\* Number of API calls explored from the initial state (Spec).
MaxOps == 5
\* Number of API calls explored from the initial state (SpecAF).
MaxOpsAF == 11

NVM_START_OFFSET == 0
SLAB_CACHE_BATCH_SIZE == SLAB_CACHE_SIZE \div 2
SC_COUNT == 10
SC_512B == 6
SC_1K == 7
SC_4K == 9
NULL == 0
\* (uint64_t)-1, the failure value of space_manager_alloc_slab
NO_OFFSET == -1
\* The base pointer handed to nvm_allocator_create (any non-NULL pointer).
NvmBase == 100000


(***************************************************************************)
(* Slab: src/src/NvmSlab.c                                                 *)
(***************************************************************************)
IS_BIT_SET(bitmap, n) == n \in bitmap
SET_BIT(bitmap, n) == bitmap \cup {n}
CLEAR_BIT(bitmap, n) == bitmap \ {n}

get_block_size_from_sc_id(sc_id) ==
    CASE sc_id = 0 -> 8
      [] sc_id = 1 -> 16
      [] sc_id = 2 -> 32
      [] sc_id = 3 -> 64
      [] sc_id = 4 -> 128
      [] sc_id = 5 -> 256
      [] sc_id = 6 -> 512
      [] sc_id = 7 -> 1024
      [] sc_id = 8 -> 2048
      [] sc_id = 9 -> 4096
      [] OTHER -> 0

\* The metadata of a fresh slab (calloc zeroes everything else).
nvm_slab_create(sc_id, nvm_base_offset) ==
    [ next_in_chain         |-> NULL,
      nvm_base_offset       |-> nvm_base_offset,
      size_type_id          |-> sc_id,
      block_size            |-> get_block_size_from_sc_id(sc_id),
      total_block_count     |-> NVM_SLAB_SIZE \div get_block_size_from_sc_id(sc_id),
      allocated_block_count |-> 0,
      cache_head            |-> 0,
      cache_tail            |-> 0,
      cache_count           |-> 0,
      free_block_buffer     |-> [k \in 0 .. SLAB_CACHE_SIZE - 1 |-> 0],
      bitmap                |-> {} ]

RECURSIVE refill_loop(_, _, _)
\* The for loop of refill_cache: i is the loop index, filled the batch so far.
refill_loop(self, i, filled) ==
    IF i < self.total_block_count /\ filled < SLAB_CACHE_BATCH_SIZE
    THEN IF ~IS_BIT_SET(self.bitmap, i)
         THEN refill_loop(
                [self EXCEPT !.free_block_buffer[self.cache_tail] = i,
                             !.cache_tail = (self.cache_tail + 1) % SLAB_CACHE_SIZE,
                             !.bitmap = SET_BIT(self.bitmap, i)],
                i + 1, filled + 1)
         ELSE refill_loop(self, i + 1, filled)
    ELSE [self EXCEPT !.cache_count = self.cache_count + filled]

\* refill_cache that starts its scan at the second bit.
refill_cache_from_one(self) ==
    IF self.allocated_block_count >= self.total_block_count
    THEN self
    ELSE refill_loop(self, 1, 0)

refill_cache(self) ==
    IF self.allocated_block_count >= self.total_block_count
    THEN self
    ELSE refill_loop(self, 0, 0)

RECURSIVE drain_loop(_, _, _)
\* The for loop of drain_cache.
drain_loop(self, i, count_to_drain) ==
    IF i < count_to_drain /\ self.cache_count # 0
    THEN drain_loop(
           [self EXCEPT !.cache_head = (self.cache_head + 1) % SLAB_CACHE_SIZE,
                        !.bitmap = CLEAR_BIT(self.bitmap,
                                             self.free_block_buffer[self.cache_head]),
                        !.cache_count = self.cache_count - 1],
           i + 1, count_to_drain)
    ELSE self

\* drain_cache that writes the whole ring back.
drain_cache_all(self) ==
    IF self.cache_count <= SLAB_CACHE_BATCH_SIZE
    THEN self
    ELSE drain_loop(self, 0, self.cache_count)

drain_cache(self) ==
    IF self.cache_count <= SLAB_CACHE_BATCH_SIZE
    THEN self
    ELSE drain_loop(self, 0, self.cache_count - SLAB_CACHE_BATCH_SIZE)

\* nvm_slab_alloc that leaves cache_head where it is.
nvm_slab_alloc_stuck_head(self) ==
    LET s1 == IF self.cache_count = 0 THEN refill_cache(self) ELSE self
    IN  IF s1.cache_count = 0
        THEN [ret |-> -1, idx |-> 0, slab |-> s1]
        ELSE [ret  |-> 0,
              idx  |-> s1.free_block_buffer[s1.cache_head],
              slab |-> [s1 EXCEPT
                          !.cache_count = s1.cache_count - 1,
                          !.allocated_block_count = s1.allocated_block_count + 1]]

\* nvm_slab_alloc: [ret, idx, slab]; ret is 0 or -1.
nvm_slab_alloc(self) ==
    LET s1 == IF self.cache_count = 0 THEN refill_cache(self) ELSE self
    IN  IF s1.cache_count = 0
        THEN [ret |-> -1, idx |-> 0, slab |-> s1]
        ELSE [ret  |-> 0,
              idx  |-> s1.free_block_buffer[s1.cache_head],
              slab |-> [s1 EXCEPT
                          !.cache_head = (s1.cache_head + 1) % SLAB_CACHE_SIZE,
                          !.cache_count = s1.cache_count - 1,
                          !.allocated_block_count = s1.allocated_block_count + 1]]

\* nvm_slab_free that leaves allocated_block_count where it is.
nvm_slab_free_keeps_count(self, block_idx) ==
    IF block_idx >= self.total_block_count
    THEN self
    ELSE LET s2 == IF self.cache_count >= SLAB_CACHE_SIZE THEN drain_cache(self) ELSE self
         IN  [s2 EXCEPT !.free_block_buffer[s2.cache_tail] = block_idx,
                        !.cache_tail = (s2.cache_tail + 1) % SLAB_CACHE_SIZE,
                        !.cache_count = s2.cache_count + 1]

\* nvm_slab_free that drains when the freed index would fill the ring.
nvm_slab_free_drains_early(self, block_idx) ==
    IF block_idx >= self.total_block_count
    THEN self
    ELSE LET s1 == IF self.allocated_block_count > 0
                   THEN [self EXCEPT !.allocated_block_count =
                                         self.allocated_block_count - 1]
                   ELSE self
             s2 == IF s1.cache_count + 1 >= SLAB_CACHE_SIZE THEN drain_cache(s1) ELSE s1
         IN  [s2 EXCEPT !.free_block_buffer[s2.cache_tail] = block_idx,
                        !.cache_tail = (s2.cache_tail + 1) % SLAB_CACHE_SIZE,
                        !.cache_count = s2.cache_count + 1]

\* nvm_slab_free: the slab afterwards.
nvm_slab_free(self, block_idx) ==
    IF block_idx >= self.total_block_count
    THEN self
    ELSE LET s1 == IF self.allocated_block_count > 0
                   THEN [self EXCEPT !.allocated_block_count =
                                         self.allocated_block_count - 1]
                   ELSE self
             s2 == IF s1.cache_count >= SLAB_CACHE_SIZE THEN drain_cache(s1) ELSE s1
         IN  [s2 EXCEPT !.free_block_buffer[s2.cache_tail] = block_idx,
                        !.cache_tail = (s2.cache_tail + 1) % SLAB_CACHE_SIZE,
                        !.cache_count = s2.cache_count + 1]

nvm_slab_is_full(self) == self.allocated_block_count = self.total_block_count

nvm_slab_is_empty(self) == self.allocated_block_count = 0

\* nvm_slab_set_bitmap_at_idx that sets the bit and leaves the count.
nvm_slab_set_bitmap_at_idx_no_count(self, block_idx) ==
    IF block_idx >= self.total_block_count
    THEN [ret |-> -1, slab |-> self]
    ELSE [ret |-> 0, slab |-> [self EXCEPT !.bitmap = SET_BIT(self.bitmap, block_idx)]]

\* nvm_slab_set_bitmap_at_idx that counts the block whether its bit was set
\* or not.
nvm_slab_set_bitmap_at_idx_always_count(self, block_idx) ==
    IF block_idx >= self.total_block_count
    THEN [ret |-> -1, slab |-> self]
    ELSE [ret  |-> 0,
          slab |-> [self EXCEPT
                      !.bitmap = SET_BIT(self.bitmap, block_idx),
                      !.allocated_block_count = self.allocated_block_count + 1]]

\* nvm_slab_set_bitmap_at_idx: [ret, slab].
nvm_slab_set_bitmap_at_idx(self, block_idx) ==
    IF block_idx >= self.total_block_count
    THEN [ret |-> -1, slab |-> self]
    ELSE IF ~IS_BIT_SET(self.bitmap, block_idx)
         THEN [ret  |-> 0,
               slab |-> [self EXCEPT
                           !.bitmap = SET_BIT(self.bitmap, block_idx),
                           !.allocated_block_count = self.allocated_block_count + 1]]
         ELSE [ret |-> 0, slab |-> self]

(***************************************************************************)
(* Space manager: src/src/NvmSpaceManager.c                                *)
(* The address-ordered doubly-linked list of FreeSegmentNode is the        *)
(* sequence of its nodes from head to tail; prev and next of a node are    *)
(* its neighbours in the sequence.                                         *)
(***************************************************************************)
create_segment_node(offset, size) == [nvm_offset |-> offset, size |-> size]

\* Unlink the i-th node.
remove_node_from_list(manager, i) ==
    SubSeq(manager, 1, i - 1) \o SubSeq(manager, i + 1, Len(manager))

\* Link new_node between the nodes at positions next_idx - 1 and next_idx.
insert_node_into_list(manager, new_node, next_idx) ==
    SubSeq(manager, 1, next_idx - 1) \o <<new_node>>
        \o SubSeq(manager, next_idx, Len(manager))

\* space_manager_create: [ret, manager]; ret is -1 for the NULL handle (the
\* manager allocated first has been freed again), else 0 with the list of one
\* segment.
space_manager_create(total_nvm_size, nvm_start_offset) ==
    IF total_nvm_size < NVM_SLAB_SIZE
    THEN [ret |-> -1, manager |-> <<>>]
    ELSE [ret |-> 0,
          manager |-> <<create_segment_node(nvm_start_offset, total_nvm_size)>>]

RECURSIVE first_fit(_, _)
\* The while loop of space_manager_alloc_slab: position of the first node
\* with size >= NVM_SLAB_SIZE at or after i, 0 when there is none.
first_fit(manager, i) ==
    IF i > Len(manager) THEN 0
    ELSE IF manager[i].size >= NVM_SLAB_SIZE THEN i
    ELSE first_fit(manager, i + 1)

\* space_manager_alloc_slab that takes the first node without looking at its
\* size.
space_manager_alloc_slab_any_size(manager) ==
    IF Len(manager) = 0
    THEN [ret |-> NO_OFFSET, manager |-> manager]
    ELSE IF manager[1].size = NVM_SLAB_SIZE
         THEN [ret |-> manager[1].nvm_offset,
               manager |-> remove_node_from_list(manager, 1)]
         ELSE [ret |-> manager[1].nvm_offset,
               manager |-> [manager EXCEPT ![1].nvm_offset = @ + NVM_SLAB_SIZE,
                                           ![1].size = @ - NVM_SLAB_SIZE]]

\* space_manager_alloc_slab that advances the offset of a larger node but
\* keeps its size.
space_manager_alloc_slab_keep_size(manager) ==
    LET i == first_fit(manager, 1)
    IN  IF i = 0
        THEN [ret |-> NO_OFFSET, manager |-> manager]
        ELSE IF manager[i].size = NVM_SLAB_SIZE
             THEN [ret |-> manager[i].nvm_offset,
                   manager |-> remove_node_from_list(manager, i)]
             ELSE [ret |-> manager[i].nvm_offset,
                   manager |-> [manager EXCEPT ![i].nvm_offset = @ + NVM_SLAB_SIZE]]

\* space_manager_alloc_slab that takes the extent at the end of the node.
space_manager_alloc_slab_from_back(manager) ==
    LET i == first_fit(manager, 1)
    IN  IF i = 0
        THEN [ret |-> NO_OFFSET, manager |-> manager]
        ELSE IF manager[i].size = NVM_SLAB_SIZE
             THEN [ret |-> manager[i].nvm_offset,
                   manager |-> remove_node_from_list(manager, i)]
             ELSE [ret |-> manager[i].nvm_offset + manager[i].size - NVM_SLAB_SIZE,
                   manager |-> [manager EXCEPT ![i].size = @ - NVM_SLAB_SIZE]]

\* space_manager_alloc_slab: [ret, manager]; ret is the offset or NO_OFFSET.
space_manager_alloc_slab(manager) ==
    LET i == first_fit(manager, 1)
    IN  IF i = 0
        THEN [ret |-> NO_OFFSET, manager |-> manager]
        ELSE IF manager[i].size = NVM_SLAB_SIZE
             THEN [ret |-> manager[i].nvm_offset,
                   manager |-> remove_node_from_list(manager, i)]
             ELSE [ret |-> manager[i].nvm_offset,
                   manager |-> [manager EXCEPT
                                  ![i].nvm_offset = @ + NVM_SLAB_SIZE,
                                  ![i].size = @ - NVM_SLAB_SIZE]]

RECURSIVE insert_position(_, _, _)
\* The while loop of space_manager_free_slab: position of next_node, the
\* first node at or after i whose offset is not below offset_to_free
\* (Len + 1 stands for next_node == NULL); prev_node is the one before it.
insert_position(manager, offset_to_free, i) ==
    IF i <= Len(manager) /\ manager[i].nvm_offset < offset_to_free
    THEN insert_position(manager, offset_to_free, i + 1)
    ELSE i

\* The two asserts of space_manager_free_slab (double free, overlap).
free_slab_asserts(manager, offset_to_free) ==
    LET n == insert_position(manager, offset_to_free, 1)
    IN  /\ n > Len(manager) \/ offset_to_free + NVM_SLAB_SIZE <= manager[n].nvm_offset
        /\ n = 1 \/ manager[n - 1].nvm_offset + manager[n - 1].size <= offset_to_free

\* space_manager_free_slab that never merges with a neighbour.
space_manager_free_slab_no_merge(manager, offset_to_free, node_ok) ==
    IF ~node_ok
    THEN manager
    ELSE insert_node_into_list(
           manager, create_segment_node(offset_to_free, NVM_SLAB_SIZE),
           insert_position(manager, offset_to_free, 1))

\* space_manager_free_slab that never merges with the successor.
space_manager_free_slab_prev_only(manager, offset_to_free, node_ok) ==
    LET n == insert_position(manager, offset_to_free, 1)
        p == n - 1
    IN  IF p >= 1 /\ manager[p].nvm_offset + manager[p].size = offset_to_free
        THEN [manager EXCEPT ![p].size = @ + NVM_SLAB_SIZE]
        ELSE IF ~node_ok
        THEN manager
        ELSE insert_node_into_list(
               manager, create_segment_node(offset_to_free, NVM_SLAB_SIZE), n)

\* space_manager_free_slab that, when both neighbours abut, merges with the
\* predecessor and leaves the successor as it is.
space_manager_free_slab_one_side(manager, offset_to_free, node_ok) ==
    LET n == insert_position(manager, offset_to_free, 1)
        p == n - 1
    IN  IF p >= 1 /\ manager[p].nvm_offset + manager[p].size = offset_to_free
        THEN [manager EXCEPT ![p].size = @ + NVM_SLAB_SIZE]
        ELSE IF n <= Len(manager)
                /\ offset_to_free + NVM_SLAB_SIZE = manager[n].nvm_offset
        THEN [manager EXCEPT ![n].nvm_offset = offset_to_free,
                             ![n].size = @ + NVM_SLAB_SIZE]
        ELSE IF ~node_ok
        THEN manager
        ELSE insert_node_into_list(
               manager, create_segment_node(offset_to_free, NVM_SLAB_SIZE), n)

\* space_manager_free_slab: the list afterwards.  node_ok says whether the
\* malloc of create_segment_node succeeds.
space_manager_free_slab(manager, offset_to_free, node_ok) ==
    LET n == insert_position(manager, offset_to_free, 1)
        p == n - 1
        can_merge_prev == p >= 1
            /\ manager[p].nvm_offset + manager[p].size = offset_to_free
        can_merge_next == n <= Len(manager)
            /\ offset_to_free + NVM_SLAB_SIZE = manager[n].nvm_offset
    IN  IF can_merge_prev /\ can_merge_next
        THEN remove_node_from_list(
               [manager EXCEPT ![p].size = @ + NVM_SLAB_SIZE + manager[n].size], n)
        ELSE IF can_merge_prev
        THEN [manager EXCEPT ![p].size = @ + NVM_SLAB_SIZE]
        ELSE IF can_merge_next
        THEN [manager EXCEPT ![n].nvm_offset = offset_to_free,
                             ![n].size = @ + NVM_SLAB_SIZE]
        ELSE IF ~node_ok
        THEN manager
        ELSE insert_node_into_list(
               manager, create_segment_node(offset_to_free, NVM_SLAB_SIZE), n)

RECURSIVE covering_node(_, _, _)
\* The while loop of space_manager_alloc_at_offset: position of the first
\* node at or after i that covers [offset, offset + NVM_SLAB_SIZE), else 0.
covering_node(manager, offset, i) ==
    IF i > Len(manager) THEN 0
    ELSE IF /\ manager[i].nvm_offset <= offset
            /\ manager[i].nvm_offset + manager[i].size >= offset + NVM_SLAB_SIZE
         THEN i
         ELSE covering_node(manager, offset, i + 1)

\* space_manager_alloc_at_offset that reports success for a covered extent
\* and leaves the list as it is.
space_manager_alloc_at_offset_no_carve(manager, offset, node_ok) ==
    IF covering_node(manager, offset, 1) = 0
    THEN [ret |-> -1, manager |-> manager]
    ELSE [ret |-> 0, manager |-> manager]

\* space_manager_alloc_at_offset that carves every extent but an exact match
\* from the front of the segment.
space_manager_alloc_at_offset_front_only(manager, offset, node_ok) ==
    LET i == covering_node(manager, offset, 1)
    IN  IF i = 0
        THEN [ret |-> -1, manager |-> manager]
        ELSE IF manager[i].size = NVM_SLAB_SIZE
             THEN [ret |-> 0, manager |-> remove_node_from_list(manager, i)]
             ELSE [ret |-> 0,
                   manager |-> [manager EXCEPT ![i].nvm_offset = @ + NVM_SLAB_SIZE,
                                               ![i].size = @ - NVM_SLAB_SIZE]]

\* space_manager_alloc_at_offset: [ret, manager]; ret is 0 or -1.
space_manager_alloc_at_offset(manager, offset, node_ok) ==
    LET end_offset == offset + NVM_SLAB_SIZE
        i == covering_node(manager, offset, 1)
    IN  IF i = 0
        THEN [ret |-> -1, manager |-> manager]
        ELSE LET is_head_match == manager[i].nvm_offset = offset
                 is_tail_match == manager[i].nvm_offset + manager[i].size = end_offset
                 original_end == manager[i].nvm_offset + manager[i].size
                 shrunk == [manager EXCEPT ![i].size = offset - manager[i].nvm_offset]
             IN  IF is_head_match /\ is_tail_match
                 THEN [ret |-> 0, manager |-> remove_node_from_list(manager, i)]
                 ELSE IF is_head_match
                 THEN [ret |-> 0,
                       manager |-> [manager EXCEPT ![i].nvm_offset = @ + NVM_SLAB_SIZE,
                                                   ![i].size = @ - NVM_SLAB_SIZE]]
                 ELSE IF is_tail_match
                 THEN [ret |-> 0,
                       manager |-> [manager EXCEPT ![i].size = @ - NVM_SLAB_SIZE]]
                 ELSE IF ~node_ok
                 THEN [ret |-> -1, manager |-> shrunk]
                 ELSE [ret |-> 0,
                       manager |-> insert_node_into_list(
                                     shrunk,
                                     create_segment_node(end_offset,
                                                         original_end - end_offset),
                                     i + 1)]

(***************************************************************************)
(* Slab index: src/src/SlabHashTable.c (lines 1-330, the rwlock version)   *)
(* A table is its bucket array; a bucket is the chain of its nodes.        *)
(***************************************************************************)
hash_function(key) == (key \div NVM_SLAB_SIZE) % INITIAL_HASHTABLE_CAPACITY

create_hash_node(nvm_offset, slab_ptr) ==
    [nvm_offset |-> nvm_offset, slab_ptr |-> slab_ptr]

slab_hashtable_create == [b \in 0 .. INITIAL_HASHTABLE_CAPACITY - 1 |-> <<>>]

RECURSIVE chain_find(_, _, _)
\* Walk of one bucket chain: position of the node with the key, else 0.
chain_find(chain, nvm_offset, i) ==
    IF i > Len(chain) THEN 0
    ELSE IF chain[i].nvm_offset = nvm_offset THEN i
    ELSE chain_find(chain, nvm_offset, i + 1)

\* slab_hashtable_insert: [ret, table].  node_ok says whether the malloc of
\* create_hash_node succeeds.
slab_hashtable_insert(table, nvm_offset, slab_ptr, node_ok) ==
    LET idx == hash_function(nvm_offset)
    IN  IF slab_ptr = NULL \/ chain_find(table[idx], nvm_offset, 1) # 0 \/ ~node_ok
        THEN [ret |-> -1, table |-> table]
        ELSE [ret |-> 0,
              table |-> [table EXCEPT
                           ![idx] = <<create_hash_node(nvm_offset, slab_ptr)>> \o @]]

\* slab_hashtable_lookup: the slab pointer or NULL.
slab_hashtable_lookup(table, nvm_offset) ==
    LET idx == hash_function(nvm_offset)
        i == chain_find(table[idx], nvm_offset, 1)
    IN  IF i = 0 THEN NULL ELSE table[idx][i].slab_ptr

(***************************************************************************)
(* Allocator: src/src/NvmAllocator.c, lines 376-790                        *)
(***************************************************************************)
VARIABLES
    initialized,        \* global_nvm_allocator != NULL
    nvm_size,           \* the nvm_size_bytes the allocator was created with
    space_manager,      \* central_heap.space_manager: the free segment list
    slab_lookup_table,  \* central_heap.slab_lookup_table: the bucket array
    cpu_heaps,          \* cpu_heaps[cpu].slab_lists[sc_id]: head of a slab chain
    slabs,              \* the NvmSlab objects in DRAM, by pointer
    held,               \* addresses the callers hold: returned by nvm_malloc
                        \* or restored, and not yet freed
    hist,               \* the last API call: operation, arguments, result
    nops,               \* number of API calls so far
    manager,            \* a FreeSpaceManager used on its own: its free list
    allocated,          \* offsets of the extents handed out by manager
    sm_hist,            \* the last space manager call and the list before it
    pc,                 \* where each thread is in its code
    local,              \* the local variables of each thread
    shared_ptrs,        \* the slots the producer publishes addresses in
    global_lock,        \* central_heap.global_lock: its holder
    slab_lock,          \* the spinlock of every slab: its holder
    req_size            \* the size the producer, or the one caller, asks for

AllocatorVars == <<initialized, nvm_size, space_manager, slab_lookup_table,
                   cpu_heaps, slabs, held, hist, nops>>
ManagerVars == <<manager, allocated, sm_hist>>
ThreadVars == <<pc, local, shared_ptrs, global_lock, slab_lock, req_size>>
vars == <<AllocatorVars, ManagerVars, ThreadVars>>

\* The allocator object as one value.
Allocator ==
    [ space_manager     |-> space_manager,
      slab_lookup_table |-> slab_lookup_table,
      cpu_heaps         |-> cpu_heaps,
      slabs             |-> slabs ]

\* Host memory: which of the mallocs of one call succeed.
AllOk == [slab |-> TRUE, hash |-> TRUE, seg |-> TRUE]

\* map_size_to_sc_id that compares with < instead of <=.
map_size_to_sc_id_strict(size) ==
    IF size < 8 THEN 0
    ELSE IF size < 16 THEN 1
    ELSE IF size < 32 THEN 2
    ELSE IF size < 64 THEN 3
    ELSE IF size < 128 THEN 4
    ELSE IF size < 256 THEN 5
    ELSE IF size < 512 THEN 6
    ELSE IF size < 1024 THEN 7
    ELSE IF size < 2048 THEN 8
    ELSE IF size < 4096 THEN 9
    ELSE SC_COUNT

\* map_size_to_sc_id that puts every larger size in the 4K class.
map_size_to_sc_id_clamped(size) ==
    IF size <= 8 THEN 0
    ELSE IF size <= 16 THEN 1
    ELSE IF size <= 32 THEN 2
    ELSE IF size <= 64 THEN 3
    ELSE IF size <= 128 THEN 4
    ELSE IF size <= 256 THEN 5
    ELSE IF size <= 512 THEN 6
    ELSE IF size <= 1024 THEN 7
    ELSE IF size <= 2048 THEN 8
    ELSE SC_4K

map_size_to_sc_id(size) ==
    IF size <= 8 THEN 0
    ELSE IF size <= 16 THEN 1
    ELSE IF size <= 32 THEN 2
    ELSE IF size <= 64 THEN 3
    ELSE IF size <= 128 THEN 4
    ELSE IF size <= 256 THEN 5
    ELSE IF size <= 512 THEN 6
    ELSE IF size <= 1024 THEN 7
    ELSE IF size <= 2048 THEN 8
    ELSE IF size <= 4096 THEN 9
    ELSE SC_COUNT

\* NvmConfig.h nvm_get_current_cpu_id; cpu is the value of sched_getcpu().
nvm_get_current_cpu_id(cpu) ==
    IF cpu < 0 THEN 0
    ELSE IF cpu >= MAX_CPUS THEN cpu % MAX_CPUS
    ELSE cpu

\* calloc of a new NvmSlab: a pointer that is not in use.
new_slab_ptr(heap) ==
    CHOOSE p \in 1 .. Cardinality(DOMAIN heap) + 1 : p \notin DOMAIN heap

\* nvm_slab_destroy: free(self).
nvm_slab_destroy(heap, self) == [q \in DOMAIN heap \ {self} |-> heap[q]]

\* The list walk that looks at the head of the list only.
first_not_full_head_only(heap, target_slab) ==
    IF target_slab # NULL /\ nvm_slab_is_full(heap[target_slab])
    THEN NULL
    ELSE target_slab

RECURSIVE first_not_full(_, _)
\* The list walk of nvm_malloc_impl: the first slab that is not full.
first_not_full(heap, target_slab) ==
    IF target_slab # NULL /\ nvm_slab_is_full(heap[target_slab])
    THEN first_not_full(heap, heap[target_slab].next_in_chain)
    ELSE target_slab

\* Step 5 of nvm_malloc_impl with the block index taken as a byte offset.
malloc_from_slab_byte_index(a, target_slab) ==
    LET r == nvm_slab_alloc(a.slabs[target_slab])
    IN  IF r.ret = 0
        THEN [ret |-> NvmBase + (r.slab.nvm_base_offset + r.idx),
              a   |-> [a EXCEPT !.slabs[target_slab] = r.slab]]
        ELSE [ret |-> NULL, a |-> a]

\* Step 5 of nvm_malloc_impl: allocate a block from target_slab.
malloc_from_slab(a, target_slab) ==
    LET r == nvm_slab_alloc(a.slabs[target_slab])
    IN  IF r.ret = 0
        THEN [ret |-> NvmBase + (r.slab.nvm_base_offset + r.idx * r.slab.block_size),
              a   |-> [a EXCEPT !.slabs[target_slab] = r.slab]]
        ELSE [ret |-> NULL, a |-> a]

\* slow_path_central that returns the failure without handing the extent
\* back to the space manager.
slow_path_central_keeps_extent(a, sc_id, ok) ==
    LET sm == space_manager_alloc_slab(a.space_manager)
        new_slab_offset == sm.ret
        target_slab == new_slab_ptr(a.slabs)
        ins == slab_hashtable_insert(a.slab_lookup_table, new_slab_offset,
                                     target_slab, ok.hash)
        kept == [a EXCEPT !.space_manager = sm.manager]
    IN  IF new_slab_offset = NO_OFFSET
        THEN [ret |-> -1, a |-> a, slab |-> NULL]
        ELSE IF ~ok.slab \/ ins.ret # 0
        THEN [ret |-> -1, a |-> kept, slab |-> NULL]
        ELSE [ret  |-> 0,
              slab |-> target_slab,
              a    |-> [a EXCEPT
                  !.space_manager = sm.manager,
                  !.slab_lookup_table = ins.table,
                  !.slabs = (target_slab :> nvm_slab_create(sc_id, new_slab_offset))
                                @@ a.slabs]]

\* Steps 4.1-4.3 of nvm_malloc_impl, the part of the slow path under
\* global_lock: a new extent, a new slab, the index entry.
\* [ret, a, slab]: ret is 0 or -1, slab the new slab (not linked yet).
slow_path_central(a, sc_id, ok) ==
    LET sm == space_manager_alloc_slab(a.space_manager)
        new_slab_offset == sm.ret
        target_slab == new_slab_ptr(a.slabs)
        ins == slab_hashtable_insert(a.slab_lookup_table, new_slab_offset,
                                     target_slab, ok.hash)
        rolled_back == [a EXCEPT !.space_manager =
                           space_manager_free_slab(sm.manager, new_slab_offset, ok.seg)]
    IN  IF new_slab_offset = NO_OFFSET
        THEN [ret |-> -1, a |-> a, slab |-> NULL]
        ELSE IF ~ok.slab
        THEN [ret |-> -1, a |-> rolled_back, slab |-> NULL]
        ELSE IF ins.ret # 0
        THEN [ret |-> -1, a |-> rolled_back, slab |-> NULL]
        ELSE [ret  |-> 0,
              slab |-> target_slab,
              a    |-> [a EXCEPT
                  !.space_manager = sm.manager,
                  !.slab_lookup_table = ins.table,
                  !.slabs = (target_slab :> nvm_slab_create(sc_id, new_slab_offset))
                                @@ a.slabs]]

\* Step 4.4 of nvm_malloc_impl: push target_slab onto the list of cpu_id.
push_slab(a, cpu_id, sc_id, target_slab) ==
    [a EXCEPT !.slabs[target_slab].next_in_chain = a.cpu_heaps[cpu_id][sc_id],
              !.cpu_heaps[cpu_id][sc_id] = target_slab]

\* Step 4 of nvm_malloc_impl, the whole slow path. [ret, a, slab].
malloc_slow_path(a, cpu_id, sc_id, ok) ==
    LET c == slow_path_central(a, sc_id, ok)
    IN  IF c.ret # 0
        THEN c
        ELSE [ret |-> 0, slab |-> c.slab, a |-> push_slab(c.a, cpu_id, sc_id, c.slab)]

\* nvm_malloc_impl: [ret, a]; ret is the address or NULL.
nvm_malloc_impl(a, cpu, size, ok) ==
    LET sc_id == map_size_to_sc_id(size)
        cpu_id == nvm_get_current_cpu_id(cpu)
    IN  IF size = 0 \/ sc_id = SC_COUNT
        THEN [ret |-> NULL, a |-> a]
        ELSE LET target_slab == first_not_full(a.slabs, a.cpu_heaps[cpu_id][sc_id])
                 slow == malloc_slow_path(a, cpu_id, sc_id, ok)
             IN  IF target_slab # NULL
                 THEN malloc_from_slab(a, target_slab)
                 ELSE IF slow.ret # 0
                 THEN [ret |-> NULL, a |-> slow.a]
                 ELSE malloc_from_slab(slow.a, slow.slab)

\* nvm_free_impl that hands the extent of a slab back to the space manager
\* as soon as the slab is empty.
nvm_free_impl_immediate_reclaim(a, nvm_ptr) ==
    LET nvm_offset == nvm_ptr - NvmBase
        slab_base_offset == (nvm_offset \div NVM_SLAB_SIZE) * NVM_SLAB_SIZE
        target_slab == slab_hashtable_lookup(a.slab_lookup_table, slab_base_offset)
        freed == nvm_slab_free(a.slabs[target_slab],
                               (nvm_offset - a.slabs[target_slab].nvm_base_offset)
                                   \div a.slabs[target_slab].block_size)
    IN  IF nvm_ptr = NULL \/ target_slab = NULL
        THEN a
        ELSE [a EXCEPT
                !.slabs[target_slab] = freed,
                !.space_manager =
                    IF nvm_slab_is_empty(freed)
                    THEN space_manager_free_slab(a.space_manager, slab_base_offset, TRUE)
                    ELSE a.space_manager]

\* nvm_free_impl that gives the extent of an address without a slab back to
\* the space manager.
nvm_free_impl_unmanaged_reclaim(a, nvm_ptr) ==
    IF nvm_ptr = NULL
    THEN a
    ELSE LET nvm_offset == nvm_ptr - NvmBase
             slab_base_offset == (nvm_offset \div NVM_SLAB_SIZE) * NVM_SLAB_SIZE
             target_slab == slab_hashtable_lookup(a.slab_lookup_table, slab_base_offset)
         IN  IF target_slab = NULL
             THEN [a EXCEPT !.space_manager =
                      space_manager_free_slab(a.space_manager, slab_base_offset, TRUE)]
             ELSE LET block_idx ==
                          (nvm_offset - a.slabs[target_slab].nvm_base_offset)
                              \div a.slabs[target_slab].block_size
                  IN  [a EXCEPT !.slabs[target_slab] =
                                    nvm_slab_free(a.slabs[target_slab], block_idx)]

\* nvm_free_impl: the allocator afterwards.
nvm_free_impl(a, nvm_ptr) ==
    IF nvm_ptr = NULL
    THEN a
    ELSE LET nvm_offset == nvm_ptr - NvmBase
             slab_base_offset == (nvm_offset \div NVM_SLAB_SIZE) * NVM_SLAB_SIZE
             target_slab == slab_hashtable_lookup(a.slab_lookup_table, slab_base_offset)
         IN  IF target_slab = NULL
             THEN a
             ELSE LET block_idx ==
                          (nvm_offset - a.slabs[target_slab].nvm_base_offset)
                              \div a.slabs[target_slab].block_size
                  IN  [a EXCEPT !.slabs[target_slab] =
                                    nvm_slab_free(a.slabs[target_slab], block_idx)]

\* A restore that takes any indexed slab, whatever its class.
size_class_mismatch_ignored(target_slab, sc_id) == FALSE

\* The size class check of restore on a slab found in the index.
size_class_mismatch(target_slab, sc_id) == target_slab.size_type_id # sc_id

\* nvm_allocator_restore_allocation_impl: [ret, a]; ret is 0 or -1.
nvm_allocator_restore_allocation_impl(a, nvm_ptr, size, ok) ==
    LET sc_id == map_size_to_sc_id(size)
        nvm_offset == nvm_ptr - NvmBase
        slab_base_offset == (nvm_offset \div NVM_SLAB_SIZE) * NVM_SLAB_SIZE
        found == slab_hashtable_lookup(a.slab_lookup_table, slab_base_offset)
        at == space_manager_alloc_at_offset(a.space_manager, slab_base_offset, ok.seg)
        new_slab == new_slab_ptr(a.slabs)
        \* the return value of slab_hashtable_insert is not looked at
        ins == slab_hashtable_insert(a.slab_lookup_table, slab_base_offset,
                                     new_slab, ok.hash)
        created == [a EXCEPT
            !.space_manager = at.manager,
            !.slab_lookup_table = ins.table,
            !.slabs = (new_slab :>
                [nvm_slab_create(sc_id, slab_base_offset) EXCEPT
                    !.next_in_chain = a.cpu_heaps[0][sc_id]]) @@ a.slabs,
            !.cpu_heaps[0][sc_id] = new_slab]
        mark(a1, target_slab) ==
            LET block_idx == (nvm_offset - slab_base_offset)
                                 \div a1.slabs[target_slab].block_size
                r == nvm_slab_set_bitmap_at_idx(a1.slabs[target_slab], block_idx)
            IN  [ret |-> r.ret, a |-> [a1 EXCEPT !.slabs[target_slab] = r.slab]]
    IN  IF nvm_ptr = NULL \/ size = 0 \/ sc_id = SC_COUNT
        THEN [ret |-> -1, a |-> a]
        ELSE IF found = NULL
        THEN IF at.ret # 0
             THEN [ret |-> -1, a |-> [a EXCEPT !.space_manager = at.manager]]
             ELSE IF ~ok.slab
             THEN [ret |-> -1,
                   a |-> [a EXCEPT !.space_manager =
                            space_manager_free_slab(at.manager, slab_base_offset, ok.seg)]]
             ELSE mark(created, new_slab)
        ELSE IF size_class_mismatch(a.slabs[found], sc_id)
        THEN [ret |-> -1, a |-> a]
        ELSE mark(a, found)

RECURSIVE list_slabs(_, _)
\* The slabs on the chain that starts at head.
list_slabs(heap, head) ==
    IF head = NULL THEN {} ELSE {head} \cup list_slabs(heap, heap[head].next_in_chain)

\* The slabs linked on the list of a CPU and size class.
linked_slabs(a) ==
    UNION {list_slabs(a.slabs, a.cpu_heaps[c][j]) :
             c \in DOMAIN a.cpu_heaps, j \in 0 .. SC_COUNT - 1}

\* nvm_allocator_destroy_impl: the NvmSlab objects still in DRAM afterwards.
\* The slabs on the lists of the CPU heaps are destroyed, then the space
\* manager, the hash table, the mutex and the allocator.
nvm_allocator_destroy_impl(a) ==
    [q \in DOMAIN a.slabs \ linked_slabs(a) |-> a.slabs[q]]

\* nvm_allocator_create_impl that forgets the hash table on its error path.
nvm_allocator_create_impl_keep_table(nvm_base_addr, nvm_size_bytes) ==
    LET sm == space_manager_create(nvm_size_bytes, NVM_START_OFFSET)
    IN  IF nvm_base_addr = NULL
        THEN [ret |-> -1, allocator |-> NULL, host |-> {}]
        ELSE IF sm.ret # 0
        THEN [ret |-> -1, allocator |-> NULL, host |-> {"slab_lookup_table"}]
        ELSE [ret |-> 0, allocator |->
                [ space_manager     |-> sm.manager,
                  slab_lookup_table |-> slab_hashtable_create,
                  cpu_heaps         |-> [c \in 0 .. MAX_CPUS - 1 |->
                                            [j \in 0 .. SC_COUNT - 1 |-> NULL]],
                  slabs             |-> << >> ],
              host |-> {"allocator", "global_lock", "space_manager",
                        "slab_lookup_table"}]

\* nvm_allocator_create_impl: [ret, allocator, host]; ret is -1 for a NULL
\* return, allocator the instance, host the objects of host memory the call
\* leaves allocated.
nvm_allocator_create_impl(nvm_base_addr, nvm_size_bytes) ==
    LET sm == space_manager_create(nvm_size_bytes, NVM_START_OFFSET)
        \* malloc of the allocator, NVM_MUTEX_INIT, the two creates
        built == {"allocator", "global_lock", "slab_lookup_table"}
                    \cup (IF sm.ret = 0 THEN {"space_manager"} ELSE {})
        \* the error path: destroy what exists, the mutex, free(allocator)
        torn_down == ((built \ {"space_manager"}) \ {"slab_lookup_table"})
                        \ {"global_lock", "allocator"}
    IN  IF nvm_base_addr = NULL
        THEN [ret |-> -1, allocator |-> NULL, host |-> {}]
        ELSE IF sm.ret # 0
        THEN [ret |-> -1, allocator |-> NULL, host |-> torn_down]
        ELSE [ret |-> 0, allocator |->
                [ space_manager     |-> sm.manager,
                  slab_lookup_table |-> slab_hashtable_create,
                  cpu_heaps         |-> [c \in 0 .. MAX_CPUS - 1 |->
                                            [j \in 0 .. SC_COUNT - 1 |-> NULL]],
                  slabs             |-> << >> ],
              host |-> built]

(***************************************************************************)
(* The API as atomic calls of one thread at a time                         *)
(***************************************************************************)
\* The slab base offset nvm_free_impl computes for an address.
slab_base_of(nvm_ptr) == ((nvm_ptr - NvmBase) \div NVM_SLAB_SIZE) * NVM_SLAB_SIZE

\* The slab that owns nvm_ptr in allocator a (NULL when none is indexed).
owning_slab(a, nvm_ptr) == slab_hashtable_lookup(a.slab_lookup_table, slab_base_of(nvm_ptr))

\* Request sizes: the 512-byte class (8 blocks per slab) and the 4K class (1).
RequestSizes == {512, 4096}
\* Values sched_getcpu() may give, in and out of [0, MAX_CPUS).
CpuValues == -1 .. MAX_CPUS
\* Addresses handed to restore: block 1 of the 512-byte class (inside block 0
\* of the 4K class) of every extent of the region and of one extent past it.
RestoreAddrs == {NvmBase + e * NVM_SLAB_SIZE + 512 : e \in 0 .. TotalSlabs}
\* Region sizes handed to nvm_allocator_create: one slab, two slabs and a
\* half-slab tail, TotalSlabs whole slabs.
RegionSizes ==
    {NVM_SLAB_SIZE, 2 * NVM_SLAB_SIZE + NVM_SLAB_SIZE \div 2, TotalSlabs * NVM_SLAB_SIZE}

NoCall == [op |-> "create", ret |-> 0, ptr |-> NULL, size |-> 0, sc |-> SC_COUNT, cpu |-> 0]
NoManagerCall == [op |-> "create", offset |-> 0, ret |-> 0, node_ok |-> TRUE, before |-> <<>>]

\* No allocator exists.
NoAllocator ==
    /\ initialized = FALSE
    /\ nvm_size = 0
    /\ space_manager = <<>>
    /\ slab_lookup_table = <<>>
    /\ cpu_heaps = <<>>
    /\ slabs = <<>>
    /\ held = {}
    /\ hist = NoCall
    /\ nops = 0

\* No space manager exists outside the allocator.
NoManager ==
    /\ manager = <<>>
    /\ allocated = {}
    /\ sm_hist = NoManagerCall

\* No second thread: the calls are made one after the other.
NoThreads ==
    /\ pc = <<>>
    /\ local = <<>>
    /\ shared_ptrs = <<>>
    /\ global_lock = "none"
    /\ slab_lock = <<>>
    /\ req_size = 0

Install(a) ==
    /\ space_manager' = a.space_manager
    /\ slab_lookup_table' = a.slab_lookup_table
    /\ cpu_heaps' = a.cpu_heaps
    /\ slabs' = a.slabs

\* The state after nvm_allocator_create(NvmBase, nvm_size_bytes) returned 0.
Created(nvm_size_bytes) ==
    /\ initialized = TRUE
    /\ nvm_size = nvm_size_bytes
    /\ space_manager =
          nvm_allocator_create_impl(NvmBase, nvm_size_bytes).allocator.space_manager
    /\ slab_lookup_table =
          nvm_allocator_create_impl(NvmBase, nvm_size_bytes).allocator.slab_lookup_table
    /\ cpu_heaps = nvm_allocator_create_impl(NvmBase, nvm_size_bytes).allocator.cpu_heaps
    /\ slabs = nvm_allocator_create_impl(NvmBase, nvm_size_bytes).allocator.slabs
    /\ held = {}
    /\ hist = NoCall
    /\ nops = 0

Init == NoManager /\ NoThreads /\ \E nvm_size_bytes \in RegionSizes : Created(nvm_size_bytes)

\* The allocator over a region of two slabs.
InitAF == NoManager /\ NoThreads /\ Created(2 * NVM_SLAB_SIZE)

\* nvm_malloc(size) by a thread running on CPU cpu.
Malloc(cpu, size) ==
    /\ initialized
    /\ LET r == nvm_malloc_impl(Allocator, cpu, size, AllOk)
       IN  /\ Install(r.a)
           /\ held' = IF r.ret # NULL THEN held \cup {r.ret} ELSE held
           /\ hist' = [op |-> "malloc", ret |-> r.ret, ptr |-> NULL, size |-> size,
                       sc |-> map_size_to_sc_id(size),
                       cpu |-> nvm_get_current_cpu_id(cpu)]
    /\ UNCHANGED <<initialized, nvm_size>>

\* nvm_free(nvm_ptr) of an address the caller holds.
Free(nvm_ptr) ==
    /\ initialized
    /\ nvm_ptr \in held
    /\ Install(nvm_free_impl(Allocator, nvm_ptr))
    /\ held' = held \ {nvm_ptr}
    /\ hist' = [op |-> "free", ret |-> 0, ptr |-> nvm_ptr, size |-> 0,
                sc |-> SC_COUNT, cpu |-> 0]
    /\ UNCHANGED <<initialized, nvm_size>>

\* nvm_allocator_restore_allocation(nvm_ptr, size); on success the caller
\* holds nvm_ptr again, as it did before the crash.
Restore(nvm_ptr, size) ==
    /\ initialized
    /\ LET r == nvm_allocator_restore_allocation_impl(Allocator, nvm_ptr, size, AllOk)
       IN  /\ Install(r.a)
           /\ held' = IF r.ret = 0 THEN held \cup {nvm_ptr} ELSE held
           /\ hist' = [op |-> "restore", ret |-> r.ret, ptr |-> nvm_ptr, size |-> size,
                       sc |-> map_size_to_sc_id(size), cpu |-> 0]
    /\ UNCHANGED <<initialized, nvm_size>>

\* One more call out of a budget of max.
Count(max) == nops < max /\ nops' = nops + 1

Next ==
    \/ \E cpu \in CpuValues, size \in RequestSizes :
          Malloc(cpu, size) /\ Count(MaxOps) /\ UNCHANGED <<ManagerVars, ThreadVars>>
    \/ \E nvm_ptr \in held : Free(nvm_ptr) /\ Count(MaxOps) /\ UNCHANGED <<ManagerVars, ThreadVars>>
    \/ \E nvm_ptr \in RestoreAddrs, size \in RequestSizes :
          Restore(nvm_ptr, size) /\ Count(MaxOps) /\ UNCHANGED <<ManagerVars, ThreadVars>>

\* Any sequence of allocate, free and restore calls.
Spec == Init /\ [][Next]_vars

NextAF ==
    \/ \E cpu \in CpuValues, size \in RequestSizes :
          Malloc(cpu, size) /\ Count(MaxOpsAF) /\ UNCHANGED <<ManagerVars, ThreadVars>>
    \/ \E nvm_ptr \in held : Free(nvm_ptr) /\ Count(MaxOpsAF) /\ UNCHANGED <<ManagerVars, ThreadVars>>

\* Any sequence of allocate and free calls.
SpecAF == InitAF /\ [][NextAF]_vars

(***************************************************************************)
(* Life cycle of the global instance: nvm_allocator_create,                *)
(* nvm_allocator_destroy, and the API called without an instance           *)
(***************************************************************************)
\* Number of API calls explored from the initial state (SpecLife).
MaxOpsLife == 5
\* Base addresses and sizes handed to nvm_allocator_create.
LifeBases == {NULL, NvmBase}
LifeSizes == {0, NVM_SLAB_SIZE - 1, NVM_SLAB_SIZE, 2 * NVM_SLAB_SIZE}
\* The two builds: assert() compiled in (FALSE) or compiled out by NDEBUG.
NDEBUG == BOOLEAN

\* abort() has not been called.
running == hist.op # "abort"

\* nvm_allocator_create(nvm_base_addr, nvm_size_bytes)
Create(nvm_base_addr, nvm_size_bytes) ==
    LET r == nvm_allocator_create_impl(nvm_base_addr, nvm_size_bytes)
        ret == IF initialized THEN -1 ELSE r.ret
    IN  /\ hist' = [op |-> "create", ret |-> ret, ptr |-> nvm_base_addr,
                    size |-> nvm_size_bytes, sc |-> SC_COUNT, cpu |-> 0]
        /\ IF initialized \/ r.ret # 0
           THEN UNCHANGED <<initialized, nvm_size, space_manager, slab_lookup_table,
                            cpu_heaps, slabs, held>>
           ELSE /\ initialized' = TRUE
                /\ nvm_size' = nvm_size_bytes
                /\ Install(r.allocator)
                /\ UNCHANGED held

\* nvm_allocator_destroy(); the addresses the callers hold are gone with the
\* instance.
Destroy ==
    /\ hist' = [op |-> "destroy", ret |-> 0, ptr |-> NULL, size |-> 0,
                sc |-> SC_COUNT, cpu |-> 0]
    /\ IF initialized
       THEN /\ initialized' = FALSE
            /\ nvm_size' = 0
            /\ space_manager' = <<>>
            /\ slab_lookup_table' = <<>>
            /\ cpu_heaps' = <<>>
            /\ slabs' = nvm_allocator_destroy_impl(Allocator)
            /\ held' = {}
       ELSE UNCHANGED <<initialized, nvm_size, space_manager, slab_lookup_table,
                        cpu_heaps, slabs, held>>

\* The assert of an API function that finds global_nvm_allocator NULL: in a
\* build with asserts the process aborts, with NDEBUG the function goes on
\* to its return of ret.
UninitializedCall(op, ret, nvm_ptr, size, ndebug) ==
    /\ ~initialized
    /\ hist' = [op |-> IF ndebug THEN op ELSE "abort", ret |-> ret, ptr |-> nvm_ptr,
                size |-> size, sc |-> SC_COUNT, cpu |-> 0]
    /\ UNCHANGED <<initialized, nvm_size, space_manager, slab_lookup_table,
                   cpu_heaps, slabs, held>>

\* nvm_malloc(size) without an instance
MallocUninit(size, ndebug) == UninitializedCall("malloc", NULL, NULL, size, ndebug)

\* nvm_free(nvm_ptr) without an instance
FreeUninit(nvm_ptr, ndebug) == UninitializedCall("free", 0, nvm_ptr, 0, ndebug)

\* nvm_allocator_restore_allocation(nvm_ptr, size) without an instance
RestoreUninit(nvm_ptr, size, ndebug) ==
    UninitializedCall("restore", -1, nvm_ptr, size, ndebug)

InitLife == NoAllocator /\ NoManager /\ NoThreads

\* One more call of a process that has not aborted.
Step == running /\ Count(MaxOpsLife) /\ UNCHANGED <<ManagerVars, ThreadVars>>

NextLife ==
    \/ \E nvm_base_addr \in LifeBases, nvm_size_bytes \in LifeSizes :
          Create(nvm_base_addr, nvm_size_bytes) /\ Step
    \/ Destroy /\ Step
    \/ \E size \in RequestSizes : Malloc(0, size) /\ Step
    \/ \E nvm_ptr \in held : Free(nvm_ptr) /\ Step
    \/ \E nvm_ptr \in RestoreAddrs, size \in RequestSizes : Restore(nvm_ptr, size) /\ Step
    \/ \E size \in RequestSizes, ndebug \in NDEBUG : MallocUninit(size, ndebug) /\ Step
    \/ \E nvm_ptr \in {NULL, NvmBase}, ndebug \in NDEBUG :
          FreeUninit(nvm_ptr, ndebug) /\ Step
    \/ \E nvm_ptr \in RestoreAddrs, size \in RequestSizes, ndebug \in NDEBUG :
          RestoreUninit(nvm_ptr, size, ndebug) /\ Step

\* Every order of create, destroy and API calls, in either build.
SpecLife == InitLife /\ [][NextLife]_vars

(***************************************************************************)
(* Argument checks: sizes at the class boundaries, NULL and unmanaged      *)
(* addresses                                                               *)
(***************************************************************************)
\* Number of API calls explored from the initial state (SpecArgs).
MaxOpsArgs == 3
\* 0, 1, and every block size and the size one above it.
BoundarySizes ==
    {0, 1} \cup {get_block_size_from_sc_id(j) + d : j \in 0 .. SC_COUNT - 1, d \in {0, 1}}
\* NULL and two addresses in every extent of the region and of one past it.
UnmanagedPtrs ==
    {NULL} \cup {NvmBase + e * NVM_SLAB_SIZE + d : e \in 0 .. TotalSlabs, d \in {0, 8}}

\* nvm_free(nvm_ptr) of NULL or of an address in an extent that has no slab.
FreeUnmanaged(nvm_ptr) ==
    /\ initialized
    /\ nvm_ptr \notin held
    /\ nvm_ptr = NULL \/ owning_slab(Allocator, nvm_ptr) = NULL
    /\ Install(nvm_free_impl(Allocator, nvm_ptr))
    /\ hist' = [op |-> "free", ret |-> 0, ptr |-> nvm_ptr, size |-> 0,
                sc |-> SC_COUNT, cpu |-> 0]
    /\ UNCHANGED <<initialized, nvm_size, held>>

InitArgs == NoManager /\ NoThreads /\ Created(TotalSlabs * NVM_SLAB_SIZE)

NextArgs ==
    \/ \E cpu \in 0 .. MAX_CPUS - 1, size \in BoundarySizes :
          Malloc(cpu, size) /\ Count(MaxOpsArgs) /\ UNCHANGED <<ManagerVars, ThreadVars>>
    \/ \E nvm_ptr \in held :
          Free(nvm_ptr) /\ Count(MaxOpsArgs) /\ UNCHANGED <<ManagerVars, ThreadVars>>
    \/ \E nvm_ptr \in UnmanagedPtrs :
          FreeUnmanaged(nvm_ptr) /\ Count(MaxOpsArgs)
              /\ UNCHANGED <<ManagerVars, ThreadVars>>

\* Calls with every kind of argument: all classes, sizes out of range, NULL,
\* addresses that are not managed.
SpecArgs == InitArgs /\ [][NextArgs]_vars

(***************************************************************************)
(* One request size, every value of it                                     *)
(***************************************************************************)
\* Number of API calls explored from the initial state (SpecSizes).
MaxOpsSizes == 3
\* Every size from 0 to one above the largest block size.
AllSizes == 0 .. get_block_size_from_sc_id(SC_COUNT - 1) + 1

InitSizes ==
    /\ NoManager
    /\ Created(TotalSlabs * NVM_SLAB_SIZE)
    /\ pc = <<>>
    /\ local = <<>>
    /\ shared_ptrs = <<>>
    /\ global_lock = "none"
    /\ slab_lock = <<>>
    /\ req_size \in AllSizes

NextSizes ==
    \/ Malloc(0, req_size) /\ Count(MaxOpsSizes) /\ UNCHANGED <<ManagerVars, ThreadVars>>
    \/ \E nvm_ptr \in held :
          Free(nvm_ptr) /\ Count(MaxOpsSizes) /\ UNCHANGED <<ManagerVars, ThreadVars>>

\* nvm_malloc of one size, whatever it is, and nvm_free of the results.
SpecSizes == InitSizes /\ [][NextSizes]_vars

(***************************************************************************)
(* A caller that frees an address twice                                    *)
(***************************************************************************)
\* Calls per behaviour.
MaxOpsDF == 6

\* nvm_free of the address that the nvm_free before it has just freed.
FreeAgain ==
    /\ initialized
    /\ hist.op = "free"
    /\ hist.ptr # NULL
    /\ hist.ptr \notin held
    /\ Install(nvm_free_impl(Allocator, hist.ptr))
    /\ hist' = [op |-> "free", ret |-> 0, ptr |-> hist.ptr, size |-> 0,
                sc |-> SC_COUNT, cpu |-> 0]
    /\ UNCHANGED <<initialized, nvm_size, held>>

NextDF ==
    \/ \E cpu \in CpuValues, size \in RequestSizes :
          Malloc(cpu, size) /\ Count(MaxOpsDF) /\ UNCHANGED <<ManagerVars, ThreadVars>>
    \/ \E nvm_ptr \in held : Free(nvm_ptr) /\ Count(MaxOpsDF) /\ UNCHANGED <<ManagerVars, ThreadVars>>
    \/ FreeAgain /\ Count(MaxOpsDF) /\ UNCHANGED <<ManagerVars, ThreadVars>>

\* Any sequence of allocate and free calls in which an address may be freed
\* a second time.
SpecDF == InitAF /\ [][NextDF]_vars

(***************************************************************************)
(* The space manager on its own: alloc_slab, alloc_at_offset, free_slab    *)
(***************************************************************************)
\* Size of the region given to space_manager_create.
ManagerSlabs == 4
\* Offsets handed to space_manager_alloc_at_offset: every half slab of the
\* region and one slab past it.
AtOffsets == {k * (NVM_SLAB_SIZE \div 2) : k \in 0 .. 2 * ManagerSlabs + 2}

InitSM ==
    /\ NoAllocator
    /\ NoThreads
    /\ manager = space_manager_create(ManagerSlabs * NVM_SLAB_SIZE,
                                      NVM_START_OFFSET).manager
    /\ allocated = {}
    /\ sm_hist = NoManagerCall

AllocSlab ==
    LET r == space_manager_alloc_slab(manager)
    IN  /\ manager' = r.manager
        /\ allocated' = IF r.ret # NO_OFFSET THEN allocated \cup {r.ret} ELSE allocated
        /\ sm_hist' = [op |-> "alloc_slab", offset |-> 0, ret |-> r.ret, node_ok |-> TRUE,
                       before |-> manager]
        /\ UNCHANGED <<AllocatorVars, ThreadVars>>

AllocAt(offset, node_ok) ==
    LET r == space_manager_alloc_at_offset(manager, offset, node_ok)
    IN  /\ manager' = r.manager
        /\ allocated' = IF r.ret = 0 THEN allocated \cup {offset} ELSE allocated
        /\ sm_hist' = [op |-> "alloc_at", offset |-> offset, ret |-> r.ret,
                       node_ok |-> node_ok, before |-> manager]
        /\ UNCHANGED <<AllocatorVars, ThreadVars>>

\* space_manager_free_slab of an extent that is allocated.
FreeSlab(offset, node_ok) ==
    /\ offset \in allocated
    /\ manager' = space_manager_free_slab(manager, offset, node_ok)
    /\ allocated' = allocated \ {offset}
    /\ sm_hist' = [op |-> "free_slab", offset |-> offset, ret |-> 0, node_ok |-> node_ok,
                   before |-> manager]
    /\ UNCHANGED <<AllocatorVars, ThreadVars>>

NextSM ==
    \/ AllocSlab
    \/ \E offset \in AtOffsets, node_ok \in BOOLEAN : AllocAt(offset, node_ok)
    \/ \E offset \in allocated, node_ok \in BOOLEAN : FreeSlab(offset, node_ok)

\* Any sequence of space manager calls, with or without host memory for nodes.
SpecSM == InitSM /\ [][NextSM]_vars

NextSMOk ==
    \/ AllocSlab
    \/ \E offset \in AtOffsets : AllocAt(offset, TRUE)
    \/ \E offset \in allocated : FreeSlab(offset, TRUE)

\* Any sequence of space manager calls with host memory for every node.
SpecSMOk == InitSM /\ [][NextSMOk]_vars

(***************************************************************************)
(* Remote free: a producer thread on CPU 0 and a consumer thread on CPU 1  *)
(* (thread_producer, thread_consumer of test_multithread_remote_free).     *)
(* Each thread takes one step at a time: a lock operation, a read of       *)
(* shared memory, or a write of it.  A slab operation reads the slab and   *)
(* then writes back what it computed from what it read.                    *)
(***************************************************************************)
\* num_ops of the test: the calls each thread makes.
NumOps == 7
\* Sizes the producer asks for: 64 as in the test (64 blocks per slab) and
\* 2048 (2 blocks per slab).
ProducerSizes == {64, 2048}

\* NVM_SPINLOCK_ACQUIRE that does not wait for the holder.
spin_lock_no_wait(lock) == TRUE

\* NVM_SPINLOCK_ACQUIRE that waits only for the first thread.
spin_lock_waits_for_t1(lock) == lock # "t1"

\* NVM_SPINLOCK_ACQUIRE returns once nobody holds the lock.
spin_lock_can_acquire(lock) == lock = "none"

\* NVM_MUTEX_ACQUIRE that does not wait for the holder.
mutex_no_wait(lock) == TRUE

\* NVM_MUTEX_ACQUIRE returns once nobody holds the mutex.
mutex_can_acquire(lock) == lock = "none"

NoLocals == [i |-> 1, nvm_ptr |-> NULL, target_slab |-> NULL, self |-> NULL]

InitMT ==
    /\ NoManager
    /\ Created(TotalSlabs * NVM_SLAB_SIZE)
    /\ pc = [t \in {"producer", "consumer"} |-> "loop"]
    /\ local = [t \in {"producer", "consumer"} |-> NoLocals]
    /\ shared_ptrs = [k \in 1 .. NumOps |-> NULL]
    /\ global_lock = "none"
    /\ slab_lock = <<>>
    /\ req_size \in ProducerSizes

\* thread_producer, top of the loop: the slot is free, nvm_malloc(64) starts
\* and reads the list head of CPU 0.
ProducerLoop ==
    /\ pc["producer"] = "loop"
    /\ IF local["producer"].i > NumOps
       THEN pc' = [pc EXCEPT !["producer"] = "done"] /\ UNCHANGED local
       ELSE /\ shared_ptrs[local["producer"].i] = NULL
            /\ pc' = [pc EXCEPT !["producer"] = "walk"]
            /\ local' = [local EXCEPT !["producer"].target_slab =
                            cpu_heaps[0][map_size_to_sc_id(req_size)]]
    /\ UNCHANGED <<AllocatorVars, ManagerVars, shared_ptrs, global_lock, slab_lock, req_size>>

\* nvm_malloc_impl step 3: one turn of the list walk, nvm_slab_is_full read
\* without a lock.
ProducerWalk ==
    /\ pc["producer"] = "walk"
    /\ LET target_slab == local["producer"].target_slab
       IN  IF target_slab # NULL /\ nvm_slab_is_full(slabs[target_slab])
           THEN /\ local' = [local EXCEPT !["producer"].target_slab =
                                slabs[target_slab].next_in_chain]
                /\ UNCHANGED pc
           ELSE /\ pc' = [pc EXCEPT !["producer"] =
                            IF target_slab = NULL THEN "mutex" ELSE "spin"]
                /\ UNCHANGED local
    /\ UNCHANGED <<AllocatorVars, ManagerVars, shared_ptrs, global_lock, slab_lock, req_size>>

\* nvm_malloc_impl step 4: NVM_MUTEX_ACQUIRE(global_lock).
ProducerMutex ==
    /\ pc["producer"] = "mutex"
    /\ mutex_can_acquire(global_lock)
    /\ global_lock' = "producer"
    /\ pc' = [pc EXCEPT !["producer"] = "central"]
    /\ UNCHANGED <<AllocatorVars, ManagerVars, local, shared_ptrs, slab_lock, req_size>>

\* nvm_malloc_impl steps 4.1-4.3 and NVM_MUTEX_RELEASE; on failure nvm_malloc
\* returns NULL and the producer breaks out of its loop.
ProducerCentral ==
    /\ pc["producer"] = "central"
    /\ LET c == slow_path_central(Allocator, map_size_to_sc_id(req_size), AllOk)
       IN  /\ Install(c.a)
           /\ global_lock' = "none"
           /\ IF c.ret # 0
              THEN /\ pc' = [pc EXCEPT !["producer"] = "done"]
                   /\ hist' = [op |-> "malloc", ret |-> NULL, ptr |-> NULL,
                               size |-> req_size,
                               sc |-> map_size_to_sc_id(req_size), cpu |-> 0]
                   /\ UNCHANGED <<local, slab_lock>>
              ELSE /\ pc' = [pc EXCEPT !["producer"] = "link"]
                   /\ local' = [local EXCEPT !["producer"].target_slab = c.slab]
                   /\ slab_lock' = (c.slab :> "none") @@ slab_lock
                   /\ UNCHANGED hist
    /\ UNCHANGED <<initialized, nvm_size, held, nops, ManagerVars, shared_ptrs, req_size>>

\* nvm_malloc_impl step 4.4: the new slab goes to the head of the list.
ProducerLink ==
    /\ pc["producer"] = "link"
    /\ Install(push_slab(Allocator, 0, map_size_to_sc_id(req_size),
                         local["producer"].target_slab))
    /\ pc' = [pc EXCEPT !["producer"] = "spin"]
    /\ UNCHANGED <<initialized, nvm_size, held, hist, nops, ManagerVars, local,
                   shared_ptrs, global_lock, slab_lock, req_size>>

\* The slab takes its spinlock at the start of an operation.
SlabLock(t) ==
    /\ pc[t] = "spin"
    /\ spin_lock_can_acquire(slab_lock[local[t].target_slab])
    /\ slab_lock' = [slab_lock EXCEPT ![local[t].target_slab] = t]
    /\ pc' = [pc EXCEPT ![t] = "read"]
    /\ UNCHANGED <<AllocatorVars, ManagerVars, local, shared_ptrs, global_lock, req_size>>

\* A slab operation reads the fields of the slab.
SlabRead(t) ==
    /\ pc[t] = "read"
    /\ pc' = [pc EXCEPT ![t] = "write"]
    /\ local' = [local EXCEPT ![t].self = slabs[local[t].target_slab]]
    /\ UNCHANGED <<AllocatorVars, ManagerVars, shared_ptrs, global_lock, slab_lock, req_size>>

\* The fields a slab operation writes: all but next_in_chain.
slab_store(heap, target_slab, self) ==
    [heap EXCEPT ![target_slab] =
        [self EXCEPT !.next_in_chain = heap[target_slab].next_in_chain]]

\* An operation that ends without letting go of the spinlock.
slab_unlock_skipped(t) == slab_lock' = slab_lock

\* The slab lets go of its spinlock at the end of an operation.
SlabUnlock(t) ==
    slab_lock' = [slab_lock EXCEPT ![local[t].target_slab] =
                     IF @ = t THEN "none" ELSE @]

\* nvm_malloc_impl step 5: nvm_slab_alloc writes the slab, the address is
\* computed and nvm_malloc returns it.
ProducerAlloc ==
    /\ pc["producer"] = "write"
    /\ LET target_slab == local["producer"].target_slab
           r == nvm_slab_alloc(local["producer"].self)
           nvm_ptr == IF r.ret = 0
                      THEN NvmBase + (r.slab.nvm_base_offset + r.idx * r.slab.block_size)
                      ELSE NULL
       IN  /\ slabs' = slab_store(slabs, target_slab, r.slab)
           /\ SlabUnlock("producer")
           /\ held' = IF nvm_ptr # NULL THEN held \cup {nvm_ptr} ELSE held
           /\ hist' = [op |-> "malloc", ret |-> nvm_ptr, ptr |-> NULL, size |-> req_size,
                       sc |-> map_size_to_sc_id(req_size), cpu |-> 0]
           /\ local' = [local EXCEPT !["producer"].nvm_ptr = nvm_ptr]
           /\ pc' = [pc EXCEPT !["producer"] =
                        IF nvm_ptr = NULL THEN "done" ELSE "publish"]
    /\ UNCHANGED <<initialized, nvm_size, space_manager, slab_lookup_table, cpu_heaps,
                   nops, ManagerVars, shared_ptrs, global_lock, req_size>>

\* thread_producer: the address is published in its slot.
ProducerPublish ==
    /\ pc["producer"] = "publish"
    /\ shared_ptrs' = [shared_ptrs EXCEPT ![local["producer"].i] =
                          local["producer"].nvm_ptr]
    /\ local' = [local EXCEPT !["producer"].i = @ + 1]
    /\ pc' = [pc EXCEPT !["producer"] = "loop"]
    /\ UNCHANGED <<AllocatorVars, ManagerVars, global_lock, slab_lock, req_size>>

\* thread_consumer, top of the loop: the slot is filled, nvm_free(p) starts.
ConsumerLoop ==
    /\ pc["consumer"] = "loop"
    /\ IF local["consumer"].i > NumOps
       THEN pc' = [pc EXCEPT !["consumer"] = "done"] /\ UNCHANGED local
       ELSE /\ shared_ptrs[local["consumer"].i] # NULL
            /\ local' = [local EXCEPT !["consumer"].nvm_ptr =
                            shared_ptrs[local["consumer"].i]]
            /\ pc' = [pc EXCEPT !["consumer"] = "mutex"]
    /\ UNCHANGED <<AllocatorVars, ManagerVars, shared_ptrs, global_lock, slab_lock, req_size>>

\* nvm_free_impl step 2: NVM_MUTEX_ACQUIRE(global_lock).
ConsumerMutex ==
    /\ pc["consumer"] = "mutex"
    /\ mutex_can_acquire(global_lock)
    /\ global_lock' = "consumer"
    /\ pc' = [pc EXCEPT !["consumer"] = "lookup"]
    /\ UNCHANGED <<AllocatorVars, ManagerVars, local, shared_ptrs, slab_lock, req_size>>

\* nvm_free_impl step 2: slab_hashtable_lookup and NVM_MUTEX_RELEASE.
ConsumerLookup ==
    /\ pc["consumer"] = "lookup"
    /\ LET target_slab == slab_hashtable_lookup(slab_lookup_table,
                                                slab_base_of(local["consumer"].nvm_ptr))
       IN  /\ local' = [local EXCEPT !["consumer"].target_slab = target_slab]
           /\ pc' = [pc EXCEPT !["consumer"] =
                        IF target_slab = NULL THEN "clear" ELSE "spin"]
    /\ global_lock' = "none"
    /\ UNCHANGED <<AllocatorVars, ManagerVars, shared_ptrs, slab_lock, req_size>>

\* nvm_free_impl step 3: nvm_slab_free writes the slab; the block is free.
ConsumerFree ==
    /\ pc["consumer"] = "write"
    /\ LET target_slab == local["consumer"].target_slab
           self == local["consumer"].self
           block_idx == (local["consumer"].nvm_ptr - NvmBase - self.nvm_base_offset)
                            \div self.block_size
       IN  slabs' = slab_store(slabs, target_slab, nvm_slab_free(self, block_idx))
    /\ SlabUnlock("consumer")
    /\ held' = held \ {local["consumer"].nvm_ptr}
    /\ hist' = [op |-> "free", ret |-> 0, ptr |-> local["consumer"].nvm_ptr,
                size |-> 0, sc |-> SC_COUNT, cpu |-> 1]
    /\ pc' = [pc EXCEPT !["consumer"] = "clear"]
    /\ UNCHANGED <<initialized, nvm_size, space_manager, slab_lookup_table, cpu_heaps,
                   nops, ManagerVars, local, shared_ptrs, global_lock, req_size>>

\* thread_consumer: the slot is cleared.
ConsumerClear ==
    /\ pc["consumer"] = "clear"
    /\ shared_ptrs' = [shared_ptrs EXCEPT ![local["consumer"].i] = NULL]
    /\ local' = [local EXCEPT !["consumer"].i = @ + 1]
    /\ pc' = [pc EXCEPT !["consumer"] = "loop"]
    /\ UNCHANGED <<AllocatorVars, ManagerVars, global_lock, slab_lock, req_size>>

NextMT ==
    \/ ProducerLoop
    \/ ProducerWalk
    \/ ProducerMutex
    \/ ProducerCentral
    \/ ProducerLink
    \/ ProducerAlloc
    \/ ProducerPublish
    \/ ConsumerLoop
    \/ ConsumerMutex
    \/ ConsumerLookup
    \/ ConsumerFree
    \/ ConsumerClear
    \/ \E t \in {"producer", "consumer"} : SlabLock(t)
    \/ \E t \in {"producer", "consumer"} : SlabRead(t)

\* Every interleaving of the steps of the two threads.
SpecMT == InitMT /\ [][NextMT]_vars

(***************************************************************************)
(* Concurrent callers: two threads, each making nvm_malloc, nvm_free and   *)
(* nvm_allocator_restore_allocation calls, one step at a time.  A step is  *)
(* a lock operation, a read of shared memory that no lock of its own       *)
(* covers, or the write that follows it.  The hash table takes its rwlock  *)
(* inside every operation (SlabHashTable.c 93-120, 127-141), so one of its *)
(* operations is one step.                                                 *)
(***************************************************************************)
Threads == {"t1", "t2"}
\* Calls each thread makes.
MaxCalls == 2
\* Sizes asked for: 2 blocks and 1 block per slab.
CallSizes == {2048, 4096}
\* Values of sched_getcpu() seen by the threads.
CallCpus == 0 .. MAX_CPUS - 1
\* Host memory: every combination of failing mallocs.
Faults == [slab : BOOLEAN, hash : BOOLEAN, seg : BOOLEAN]

\* The copy of the slab a call holds before its slab operation has read the
\* slab: no field set.
NoSelf ==
    [ next_in_chain         |-> NULL,
      nvm_base_offset       |-> 0,
      size_type_id          |-> SC_COUNT,
      block_size            |-> 0,
      total_block_count     |-> 0,
      allocated_block_count |-> 0,
      cache_head            |-> 0,
      cache_tail            |-> 0,
      cache_count           |-> 0,
      free_block_buffer     |-> [k \in 0 .. SLAB_CACHE_SIZE - 1 |-> 0],
      bitmap                |-> {} ]

NoCallLocals ==
    [op |-> "none", cpu_id |-> 0, sc_id |-> SC_COUNT, size |-> 0, nvm_ptr |-> NULL,
     target_slab |-> NULL, self |-> NoSelf, sm |-> <<>>, calls |-> 0]

\* Slabs of the region the threads share.
CallSlabs == 2
\* Addresses handed to restore: a block of the first extent of the region and
\* one of the extent past its end.
CallRestoreAddrs == {NvmBase + e * NVM_SLAB_SIZE + 512 : e \in {0, CallSlabs}}

InitCalls ==
    /\ NoManager
    /\ Created(CallSlabs * NVM_SLAB_SIZE)
    /\ pc = [t \in Threads |-> "idle"]
    /\ local = [t \in Threads |-> NoCallLocals]
    /\ shared_ptrs = <<>>
    /\ global_lock = "none"
    /\ slab_lock = <<>>
    /\ req_size = 0

\* The call of thread t returns: its locals go, its count of calls grows.
Return(t, op, ret, nvm_ptr) ==
    /\ pc' = [pc EXCEPT ![t] = "idle"]
    /\ local' = [local EXCEPT ![t] = [NoCallLocals EXCEPT !.calls = local[t].calls + 1]]
    /\ hist' = [op |-> op, ret |-> ret, ptr |-> nvm_ptr, size |-> local[t].size,
                sc |-> local[t].sc_id, cpu |-> local[t].cpu_id]

\* nvm_malloc(size) on a thread that sched_getcpu() places on cpu: steps 1-3,
\* up to the read of the list head.
MallocStart(t, cpu, size) ==
    /\ pc[t] = "idle"
    /\ local[t].calls < MaxCalls
    /\ LET sc_id == map_size_to_sc_id(size)
           cpu_id == nvm_get_current_cpu_id(cpu)
       IN  local' = [local EXCEPT ![t].op = "malloc", ![t].cpu_id = cpu_id,
                                  ![t].sc_id = sc_id, ![t].size = size,
                                  ![t].target_slab = cpu_heaps[cpu_id][sc_id]]
    /\ pc' = [pc EXCEPT ![t] = "walk"]
    /\ UNCHANGED <<AllocatorVars, ManagerVars, shared_ptrs, global_lock, slab_lock, req_size>>

\* nvm_malloc_impl step 3: one turn of the list walk, nvm_slab_is_full read
\* without a lock.
MallocWalk(t) ==
    /\ pc[t] = "walk"
    /\ LET target_slab == local[t].target_slab
       IN  IF target_slab # NULL /\ nvm_slab_is_full(slabs[target_slab])
           THEN /\ local' = [local EXCEPT ![t].target_slab =
                                slabs[target_slab].next_in_chain]
                /\ UNCHANGED pc
           ELSE /\ pc' = [pc EXCEPT ![t] = IF target_slab = NULL THEN "mutex" ELSE "spin"]
                /\ UNCHANGED local
    /\ UNCHANGED <<AllocatorVars, ManagerVars, shared_ptrs, global_lock, slab_lock, req_size>>

\* NVM_MUTEX_ACQUIRE(global_lock) of nvm_malloc_impl step 4 and of
\* nvm_free_impl step 2.
MutexAcquire(t) ==
    /\ pc[t] = "mutex"
    /\ mutex_can_acquire(global_lock)
    /\ global_lock' = t
    /\ pc' = [pc EXCEPT ![t] = IF local[t].op = "malloc" THEN "scan" ELSE "lookup"]
    /\ UNCHANGED <<AllocatorVars, ManagerVars, local, shared_ptrs, slab_lock, req_size>>

\* nvm_malloc_impl step 4.1: space_manager_alloc_slab reads the free list.
MallocScan(t) ==
    /\ pc[t] = "scan"
    /\ local' = [local EXCEPT ![t].sm = space_manager]
    /\ pc' = [pc EXCEPT ![t] = "central"]
    /\ UNCHANGED <<AllocatorVars, ManagerVars, shared_ptrs, global_lock, slab_lock, req_size>>

\* A return path that leaves without NVM_MUTEX_RELEASE.
mutex_release_skipped(t) == global_lock' = global_lock

\* The mutex goes back to nobody if thread t holds it.
MutexRelease(t) == global_lock' = IF global_lock = t THEN "none" ELSE global_lock

\* nvm_malloc_impl steps 4.1-4.3: space_manager_alloc_slab writes the list it
\* computed from what it read, then nvm_slab_create, slab_hashtable_insert
\* and NVM_MUTEX_RELEASE; on a failure the roll back, the release and the
\* return of NULL.
MallocCentral(t, ok) ==
    /\ pc[t] = "central"
    /\ LET c == slow_path_central([Allocator EXCEPT !.space_manager = local[t].sm],
                                  local[t].sc_id, ok)
       IN  /\ Install(c.a)
           /\ MutexRelease(t)
           /\ IF c.ret # 0
              THEN /\ Return(t, "malloc", NULL, NULL)
                   /\ UNCHANGED slab_lock
              ELSE /\ pc' = [pc EXCEPT ![t] = "link"]
                   /\ local' = [local EXCEPT ![t].target_slab = c.slab]
                   /\ slab_lock' = (c.slab :> "none") @@ slab_lock
                   /\ UNCHANGED hist
    /\ UNCHANGED <<initialized, nvm_size, held, nops, ManagerVars, shared_ptrs, req_size>>

\* nvm_malloc_impl step 4.4, first statement:
\* target_slab->next_in_chain = current_cpu_heap->slab_lists[sc_id].
MallocLink(t) ==
    /\ pc[t] = "link"
    /\ slabs' = [slabs EXCEPT ![local[t].target_slab].next_in_chain =
                    cpu_heaps[local[t].cpu_id][local[t].sc_id]]
    /\ pc' = [pc EXCEPT ![t] = "head"]
    /\ UNCHANGED <<initialized, nvm_size, space_manager, slab_lookup_table, cpu_heaps,
                   held, hist, nops, ManagerVars, local, shared_ptrs, global_lock,
                   slab_lock, req_size>>

\* nvm_malloc_impl step 4.4, second statement:
\* current_cpu_heap->slab_lists[sc_id] = target_slab.
MallocHead(t) ==
    /\ pc[t] = "head"
    /\ cpu_heaps' = [cpu_heaps EXCEPT ![local[t].cpu_id][local[t].sc_id] =
                        local[t].target_slab]
    /\ pc' = [pc EXCEPT ![t] = "spin"]
    /\ UNCHANGED <<initialized, nvm_size, space_manager, slab_lookup_table, slabs,
                   held, hist, nops, ManagerVars, local, shared_ptrs, global_lock,
                   slab_lock, req_size>>

\* nvm_free(nvm_ptr) of an address the caller holds, which it gives up with
\* the call: step 1, the offsets.
FreeStart(t, nvm_ptr) ==
    /\ pc[t] = "idle"
    /\ local[t].calls < MaxCalls
    /\ nvm_ptr \in held
    /\ held' = held \ {nvm_ptr}
    /\ local' = [local EXCEPT ![t].op = "free", ![t].nvm_ptr = nvm_ptr]
    /\ pc' = [pc EXCEPT ![t] = "mutex"]
    /\ UNCHANGED <<initialized, nvm_size, space_manager, slab_lookup_table, cpu_heaps,
                   slabs, hist, nops, ManagerVars, shared_ptrs, global_lock, slab_lock,
                   req_size>>

\* nvm_free_impl step 2: slab_hashtable_lookup and NVM_MUTEX_RELEASE; without
\* a slab the call returns.
FreeLookup(t) ==
    /\ pc[t] = "lookup"
    /\ MutexRelease(t)
    /\ LET target_slab == owning_slab(Allocator, local[t].nvm_ptr)
       IN  IF target_slab = NULL
           THEN Return(t, "free", 0, local[t].nvm_ptr)
           ELSE /\ local' = [local EXCEPT ![t].target_slab = target_slab]
                /\ pc' = [pc EXCEPT ![t] = "spin"]
                /\ UNCHANGED hist
    /\ UNCHANGED <<initialized, nvm_size, space_manager, slab_lookup_table, cpu_heaps,
                   slabs, held, nops, ManagerVars, shared_ptrs, slab_lock, req_size>>

\* nvm_allocator_restore_allocation(nvm_ptr, size) up to its call of
\* nvm_slab_set_bitmap_at_idx.  The function takes no lock for the free list
\* and the list of CPU 0, so a restore that has to create the slab is made
\* while no other call is in progress, as in recovery; one on an indexed slab
\* is made at any time.
RestoreStart(t, nvm_ptr, size, ok) ==
    /\ pc[t] = "idle"
    /\ local[t].calls < MaxCalls
    /\ LET sc_id == map_size_to_sc_id(size)
           found == owning_slab(Allocator, nvm_ptr)
           r == nvm_allocator_restore_allocation_impl(Allocator, nvm_ptr, size, ok)
           target_slab == new_slab_ptr(slabs)
           args == [local EXCEPT ![t].op = "restore", ![t].sc_id = sc_id,
                                 ![t].size = size, ![t].nvm_ptr = nvm_ptr]
       IN  IF found = NULL
           THEN /\ \A u \in Threads : pc[u] = "idle"
                /\ IF r.ret # 0
                   THEN /\ Install(r.a)
                        /\ Return(t, "restore", -1, nvm_ptr)
                        /\ UNCHANGED slab_lock
                   ELSE \* the slab is created, indexed and linked; the mark follows
                        /\ Install([r.a EXCEPT !.slabs[target_slab] =
                                      [nvm_slab_create(sc_id, slab_base_of(nvm_ptr)) EXCEPT
                                         !.next_in_chain = cpu_heaps[0][sc_id]]])
                        /\ local' = [args EXCEPT ![t].target_slab = target_slab]
                        /\ pc' = [pc EXCEPT ![t] = "spin"]
                        /\ slab_lock' = (target_slab :> "none") @@ slab_lock
                        /\ UNCHANGED hist
           ELSE /\ UNCHANGED <<space_manager, slab_lookup_table, cpu_heaps, slabs, slab_lock>>
                /\ IF size_class_mismatch(slabs[found], sc_id)
                   THEN Return(t, "restore", -1, nvm_ptr)
                   ELSE /\ local' = [args EXCEPT ![t].target_slab = found]
                        /\ pc' = [pc EXCEPT ![t] = "spin"]
                        /\ UNCHANGED hist
    /\ UNCHANGED <<initialized, nvm_size, held, nops, ManagerVars, shared_ptrs,
                   global_lock, req_size>>

\* The block index nvm_free_impl and restore compute for an address in a slab.
block_idx_in(self, nvm_ptr) == (nvm_ptr - NvmBase - self.nvm_base_offset) \div self.block_size

\* The slab operation of the call writes the slab and lets go of the
\* spinlock, and the call returns: nvm_slab_alloc and the address
\* (nvm_malloc_impl step 5), nvm_slab_free, or nvm_slab_set_bitmap_at_idx.
SlabWrite(t) ==
    /\ pc[t] = "write"
    /\ SlabUnlock(t)
    /\ LET target_slab == local[t].target_slab
           self == local[t].self
           al == nvm_slab_alloc(self)
           nvm_ptr == IF al.ret = 0
                      THEN NvmBase + (al.slab.nvm_base_offset + al.idx * al.slab.block_size)
                      ELSE NULL
           mk == nvm_slab_set_bitmap_at_idx(self, block_idx_in(self, local[t].nvm_ptr))
       IN  IF local[t].op = "malloc"
           THEN /\ slabs' = slab_store(slabs, target_slab, al.slab)
                /\ held' = IF nvm_ptr # NULL THEN held \cup {nvm_ptr} ELSE held
                /\ Return(t, "malloc", nvm_ptr, NULL)
           ELSE IF local[t].op = "free"
           THEN /\ slabs' = slab_store(slabs, target_slab,
                               nvm_slab_free(self, block_idx_in(self, local[t].nvm_ptr)))
                /\ UNCHANGED held
                /\ Return(t, "free", 0, local[t].nvm_ptr)
           ELSE /\ slabs' = slab_store(slabs, target_slab, mk.slab)
                /\ held' = IF mk.ret = 0 THEN held \cup {local[t].nvm_ptr} ELSE held
                /\ Return(t, "restore", mk.ret, local[t].nvm_ptr)
    /\ UNCHANGED <<initialized, nvm_size, space_manager, slab_lookup_table, cpu_heaps,
                   nops, ManagerVars, shared_ptrs, global_lock, req_size>>

\* The steps of nvm_malloc calls.
NextMalloc ==
    \/ \E t \in Threads, cpu \in CallCpus, size \in CallSizes : MallocStart(t, cpu, size)
    \/ \E t \in Threads : MallocWalk(t)
    \/ \E t \in Threads : MutexAcquire(t)
    \/ \E t \in Threads : MallocScan(t)
    \/ \E t \in Threads : MallocCentral(t, AllOk)
    \/ \E t \in Threads : MallocLink(t)
    \/ \E t \in Threads : MallocHead(t)
    \/ \E t \in Threads : SlabLock(t)
    \/ \E t \in Threads : SlabRead(t)
    \/ \E t \in Threads : SlabWrite(t)

\* Every interleaving of the steps of nvm_malloc calls of two threads, host
\* memory never failing.
SpecMalloc == InitCalls /\ [][NextMalloc]_vars

\* The steps of all three calls, host memory failing or not.
NextCalls ==
    \/ \E t \in Threads, cpu \in CallCpus, size \in CallSizes : MallocStart(t, cpu, size)
    \/ \E t \in Threads : MallocWalk(t)
    \/ \E t \in Threads : MutexAcquire(t)
    \/ \E t \in Threads : MallocScan(t)
    \/ \E t \in Threads, ok \in Faults : MallocCentral(t, ok)
    \/ \E t \in Threads : MallocLink(t)
    \/ \E t \in Threads : MallocHead(t)
    \/ \E t \in Threads, nvm_ptr \in held : FreeStart(t, nvm_ptr)
    \/ \E t \in Threads : FreeLookup(t)
    \/ \E t \in Threads, nvm_ptr \in CallRestoreAddrs, size \in CallSizes, ok \in Faults :
          RestoreStart(t, nvm_ptr, size, ok)
    \/ \E t \in Threads : SlabLock(t)
    \/ \E t \in Threads : SlabRead(t)
    \/ \E t \in Threads : SlabWrite(t)

\* Every interleaving of the steps of the calls of two threads.
SpecCalls == InitCalls /\ [][NextCalls]_vars

\* The next step of the call thread t is in.
CallStep(t) ==
    \/ MallocWalk(t)
    \/ MutexAcquire(t)
    \/ MallocScan(t)
    \/ \E ok \in Faults : MallocCentral(t, ok)
    \/ MallocLink(t)
    \/ MallocHead(t)
    \/ FreeLookup(t)
    \/ SlabLock(t)
    \/ SlabRead(t)
    \/ SlabWrite(t)

\* Size of the nvm_malloc calls of the fair specification: the class with
\* two blocks to a slab, so that a list gets full slabs, slabs with a free
\* block and empty ones.
FairSizes == {2048}

\* The steps of all three calls, host memory failing or not, nvm_malloc of
\* one size class.
NextCallsFair ==
    \/ \E t \in Threads, cpu \in CallCpus, size \in FairSizes : MallocStart(t, cpu, size)
    \/ \E t \in Threads : MallocWalk(t)
    \/ \E t \in Threads : MutexAcquire(t)
    \/ \E t \in Threads : MallocScan(t)
    \/ \E t \in Threads, ok \in Faults : MallocCentral(t, ok)
    \/ \E t \in Threads : MallocLink(t)
    \/ \E t \in Threads : MallocHead(t)
    \/ \E t \in Threads, nvm_ptr \in held : FreeStart(t, nvm_ptr)
    \/ \E t \in Threads : FreeLookup(t)
    \/ \E t \in Threads, nvm_ptr \in CallRestoreAddrs, size \in CallSizes, ok \in Faults :
          RestoreStart(t, nvm_ptr, size, ok)
    \/ \E t \in Threads : SlabLock(t)
    \/ \E t \in Threads : SlabRead(t)
    \/ \E t \in Threads : SlabWrite(t)

\* The calls of two threads under a scheduler that lets every thread run: a
\* thread whose next step stays possible takes it (every step moves the
\* thread on in its call or in its list walk).  Nothing makes a thread start
\* a call.
SpecCallsFair ==
    /\ InitCalls /\ [][NextCallsFair]_vars
    /\ \A t \in Threads : WF_<<pc, local[t].target_slab>>(CallStep(t))

(***************************************************************************)
(* Calls made while the host runs out of memory: the malloc of a slab      *)
(* object (nvm_slab_create) or of an index node (slab_hashtable_insert)    *)
(* may return NULL in any call.                                            *)
(***************************************************************************)
\* Number of API calls explored from the initial state (SpecRollback).
MaxOpsRollback == 4
\* Host memory of one call: the segment nodes are always there, the slab
\* object and the index node may be missing.
RollbackFaults == {ok \in Faults : ok.seg}

\* nvm_malloc(size) on CPU cpu in a call whose host allocations are ok.
MallocFault(cpu, size, ok) ==
    /\ initialized
    /\ LET r == nvm_malloc_impl(Allocator, cpu, size, ok)
       IN  /\ Install(r.a)
           /\ held' = IF r.ret # NULL THEN held \cup {r.ret} ELSE held
           /\ hist' = [op |-> "malloc", ret |-> r.ret, ptr |-> NULL, size |-> size,
                       sc |-> map_size_to_sc_id(size),
                       cpu |-> nvm_get_current_cpu_id(cpu), ok |-> ok]
    /\ UNCHANGED <<initialized, nvm_size>>

\* nvm_allocator_restore_allocation(nvm_ptr, size) in a call whose host
\* allocations are ok.
RestoreFault(nvm_ptr, size, ok) ==
    /\ initialized
    /\ LET r == nvm_allocator_restore_allocation_impl(Allocator, nvm_ptr, size, ok)
       IN  /\ Install(r.a)
           /\ held' = IF r.ret = 0 THEN held \cup {nvm_ptr} ELSE held
           /\ hist' = [op |-> "restore", ret |-> r.ret, ptr |-> nvm_ptr, size |-> size,
                       sc |-> map_size_to_sc_id(size), cpu |-> 0, ok |-> ok]
    /\ UNCHANGED <<initialized, nvm_size>>

NextRollback ==
    \/ \E cpu \in 0 .. MAX_CPUS - 1, size \in RequestSizes, ok \in RollbackFaults :
          MallocFault(cpu, size, ok) /\ Count(MaxOpsRollback)
              /\ UNCHANGED <<ManagerVars, ThreadVars>>
    \/ \E nvm_ptr \in held :
          Free(nvm_ptr) /\ Count(MaxOpsRollback) /\ UNCHANGED <<ManagerVars, ThreadVars>>
    \/ \E nvm_ptr \in RestoreAddrs, size \in RequestSizes, ok \in RollbackFaults :
          RestoreFault(nvm_ptr, size, ok) /\ Count(MaxOpsRollback)
              /\ UNCHANGED <<ManagerVars, ThreadVars>>

\* Any sequence of allocate, free and restore calls with host allocations
\* that may fail.
SpecRollback == InitAF /\ [][NextRollback]_vars

(***************************************************************************)
(* One slab used on its own: nvm_slab_create, then nvm_slab_alloc and      *)
(* nvm_slab_free of block indices the caller holds, as in                  *)
(* test_slab_alloc_free_cache_behavior                                     *)
(***************************************************************************)
\* Number of slab calls explored from the initial state (SpecSlab).
MaxOpsSlab == 13

\* Size classes of the slab: one whose slab is filled, freed and filled again
\* within MaxOpsSlab calls, and one with more blocks than the ring holds.
SlabClasses == {SC_512B, SC_1K}

\* The slab of the test.
slab == slabs[1]

\* The cache drain scenario: SLAB_CACHE_SIZE allocations, the free of these
\* blocks in allocation order, one more allocation and the free of its block.
DrainScript ==
    [k \in 1 .. 2 * SLAB_CACHE_SIZE + 2 |->
        IF k <= SLAB_CACHE_SIZE \/ k = 2 * SLAB_CACHE_SIZE + 1 THEN "slab_alloc"
        ELSE "slab_free"]

\* The locals of the test after one more call: script is the number of calls
\* of DrainScript made so far if the calls were exactly these, -1 if not;
\* allocated_indices the indices nvm_slab_alloc returned, kept as long as the
\* script is followed; nfree the number of nvm_slab_free calls.
test_locals(op, ret, block_idx) ==
    LET k == local.script + 1
        arg == IF k = 2 * SLAB_CACHE_SIZE + 2 THEN SLAB_CACHE_SIZE + 1
               ELSE k - SLAB_CACHE_SIZE
        follows == /\ local.script >= 0
                   /\ k \in DOMAIN DrainScript
                   /\ DrainScript[k] = op
                   /\ ret = 0
                   /\ op = "slab_free" => block_idx = local.allocated_indices[arg]
    IN  [script |-> IF follows THEN k ELSE -1,
         allocated_indices |->
             IF ~follows THEN <<>>
             ELSE IF op = "slab_alloc" THEN Append(local.allocated_indices, block_idx)
             ELSE local.allocated_indices,
         nfree |-> IF op = "slab_free" THEN local.nfree + 1 ELSE local.nfree]

\* nvm_slab_create(sc_id, 0) has returned the slab.
InitSlab ==
    /\ NoManager
    /\ initialized = FALSE
    /\ nvm_size = 0
    /\ space_manager = <<>>
    /\ slab_lookup_table = <<>>
    /\ cpu_heaps = <<>>
    /\ \E sc_id \in SlabClasses : slabs = <<nvm_slab_create(sc_id, 0)>>
    /\ held = {}
    /\ hist = [op |-> "slab_create", ret |-> 0, ptr |-> NULL, size |-> 0,
               sc |-> slab.size_type_id, cpu |-> 0]
    /\ nops = 0
    /\ pc = <<>>
    /\ local = [script |-> 0, allocated_indices |-> <<>>, nfree |-> 0]
    /\ shared_ptrs = <<>>
    /\ global_lock = "none"
    /\ slab_lock = <<>>
    /\ req_size = 0

\* nvm_slab_alloc(slab, &block_idx); the caller holds the block it gets.
SlabAlloc ==
    /\ Count(MaxOpsSlab)
    /\ LET r == nvm_slab_alloc(slab)
       IN  /\ slabs' = <<r.slab>>
           /\ held' = IF r.ret = 0 THEN held \cup {r.idx} ELSE held
           /\ hist' = [op |-> "slab_alloc", ret |-> r.ret, ptr |-> r.idx, size |-> 0,
                       sc |-> slab.size_type_id, cpu |-> 0]
           /\ local' = test_locals("slab_alloc", r.ret, r.idx)
    /\ UNCHANGED <<initialized, nvm_size, space_manager, slab_lookup_table, cpu_heaps,
                   ManagerVars, pc, shared_ptrs, global_lock, slab_lock, req_size>>

\* nvm_slab_free(slab, block_idx) of a block the caller holds.
SlabFree(block_idx) ==
    /\ Count(MaxOpsSlab)
    /\ block_idx \in held
    /\ slabs' = <<nvm_slab_free(slab, block_idx)>>
    /\ held' = held \ {block_idx}
    /\ hist' = [op |-> "slab_free", ret |-> 0, ptr |-> block_idx, size |-> 0,
                sc |-> slab.size_type_id, cpu |-> 0]
    /\ local' = test_locals("slab_free", 0, block_idx)
    /\ UNCHANGED <<initialized, nvm_size, space_manager, slab_lookup_table, cpu_heaps,
                   ManagerVars, pc, shared_ptrs, global_lock, slab_lock, req_size>>

NextSlab ==
    \/ SlabAlloc
    \/ \E block_idx \in held : SlabFree(block_idx)

\* Any sequence of nvm_slab_alloc and nvm_slab_free calls on one slab.
SpecSlab == InitSlab /\ [][NextSlab]_vars

(***************************************************************************)
(* Properties                                                              *)
(***************************************************************************)
\* allocated_block_count of the slab that owns nvm_ptr; 0 without such a slab.
allocated_count_of(a, nvm_ptr) ==
    IF owning_slab(a, nvm_ptr) = NULL
    THEN 0
    ELSE a.slabs[owning_slab(a, nvm_ptr)].allocated_block_count

\* C1: in a sequential series of nvm_malloc and nvm_free calls where only held
\* addresses are freed, a successful nvm_malloc never returns an address that
\* is held, it raises allocated_block_count of the owning slab by one (from 0
\* for a new slab), and an nvm_free of that result right after it takes the
\* count down by one again: malloc followed by free of its result leaves the
\* count unchanged.
C1_NoDoubleAllocation ==
    [][ /\ (hist'.op = "malloc" /\ hist'.ret # NULL) =>
              /\ hist'.ret \notin held
              /\ allocated_count_of(Allocator', hist'.ret)
                    = allocated_count_of(Allocator, hist'.ret) + 1
        /\ (hist.op = "malloc" /\ hist.ret # NULL
              /\ hist'.op = "free" /\ hist'.ptr = hist.ret) =>
              allocated_count_of(Allocator', hist'.ptr)
                    = allocated_count_of(Allocator, hist'.ptr) - 1 ]_vars

\* A free has just undone the one malloc before it: the owning slab is back
\* at allocated_block_count 0 with the block in its ring.
C1_Witness ==
    /\ hist.op = "free"
    /\ nops = 2
    /\ held = {}
    /\ owning_slab(Allocator, hist.ptr) # NULL
    /\ allocated_count_of(Allocator, hist.ptr) = 0

\* popcount of a slab's bitmap.
popcount(bitmap) == Cardinality(bitmap)

\* C2: after any sequence of nvm_malloc, nvm_free (of held addresses) and
\* restore calls, every slab has popcount(bitmap) equal to
\* allocated_block_count + cache_count.
C2_BitmapCountInvariant ==
    \A p \in DOMAIN slabs :
        popcount(slabs[p].bitmap)
            = slabs[p].allocated_block_count + slabs[p].cache_count

RECURSIVE free_size(_, _)
\* Sum of the sizes of the free segments at or after position i.
free_size(list, i) ==
    IF i > Len(list) THEN 0 ELSE list[i].size + free_size(list, i + 1)

\* The entries of the slab index, as <<bucket, position>>.
index_entries(table) ==
    UNION {{<<b, i>> : i \in DOMAIN table[b]} : b \in DOMAIN table}

\* The offsets that have an entry in the slab index.
indexed_offsets(table) == {table[e[1]][e[2]].nvm_offset : e \in index_entries(table)}

C5_IndexedExtentNotFree ==
    \A o \in indexed_offsets(slab_lookup_table) :
        \A i \in DOMAIN space_manager :
            \/ space_manager[i].nvm_offset + space_manager[i].size <= o
            \/ o + NVM_SLAB_SIZE <= space_manager[i].nvm_offset

\* A restored slab sits between two free segments.
C5_Witness ==
    /\ hist.op = "restore"
    /\ hist.ret = 0
    /\ \E o \in indexed_offsets(slab_lookup_table) :
          /\ \E i \in DOMAIN space_manager :
                space_manager[i].nvm_offset + space_manager[i].size = o
          /\ \E i \in DOMAIN space_manager :
                space_manager[i].nvm_offset = o + NVM_SLAB_SIZE

\* C6: after any sequence of alloc_slab, alloc_at_offset and free_slab (of
\* allocated extents) the free list is strictly increasing by offset, no
\* two segments overlap and no segment ends where the next begins.
C6_FreeListOrdered ==
    \A i \in 1 .. Len(manager) - 1 :
        /\ manager[i].nvm_offset < manager[i + 1].nvm_offset
        /\ manager[i].nvm_offset + manager[i].size <= manager[i + 1].nvm_offset
        /\ manager[i].nvm_offset + manager[i].size # manager[i + 1].nvm_offset

\* A free_slab has merged or inserted and the list is still fragmented.
C6_Witness ==
    /\ sm_hist.op = "free_slab"
    /\ sm_hist.node_ok
    /\ Len(manager) >= 2
    /\ allocated # {}

\* The next_in_chain link of every slab.
chain_links(a) == [p \in DOMAIN a.slabs |-> a.slabs[p].next_in_chain]

\* No free segment can hold a slab.
region_exhausted(list) == \A i \in DOMAIN list : list[i].size < NVM_SLAB_SIZE

\* C7: an nvm_malloc that finds every slab of its list full and the region
\* exhausted returns NULL; an nvm_malloc that returns NULL leaves the free
\* list, the index, the per-CPU lists and every slab as they were; a free of
\* a held block of a full slab makes the slab not full, and an nvm_malloc
\* that finds a slab that is not full on its list succeeds.
C7_ExhaustionIsClean ==
    [][ /\ hist'.op = "malloc" =>
              /\ (/\ region_exhausted(space_manager)
                  /\ first_not_full(slabs, cpu_heaps[hist'.cpu][hist'.sc]) = NULL)
                    => hist'.ret = NULL
              /\ hist'.ret = NULL => (Allocator' = Allocator /\ held' = held)
              /\ first_not_full(slabs, cpu_heaps[hist'.cpu][hist'.sc]) # NULL
                    => hist'.ret # NULL
        /\ (/\ hist'.op = "free"
            /\ owning_slab(Allocator, hist'.ptr) # NULL
            /\ nvm_slab_is_full(slabs[owning_slab(Allocator, hist'.ptr)]))
              => ~nvm_slab_is_full(slabs'[owning_slab(Allocator, hist'.ptr)]) ]_vars

\* An nvm_malloc has just failed on an exhausted region while blocks are held.
C7_Witness ==
    /\ hist.op = "malloc"
    /\ hist.ret = NULL
    /\ region_exhausted(space_manager)
    /\ held # {}
    /\ nops >= 3

inside_some(seg, list) ==
    \E i \in DOMAIN list :
        /\ list[i].nvm_offset <= seg.nvm_offset
        /\ seg.nvm_offset + seg.size <= list[i].nvm_offset + list[i].size

\* after is before with exactly the extent [base, base + NVM_SLAB_SIZE)
\* taken out: nothing outside before, nothing of the extent, no byte twice,
\* and NVM_SLAB_SIZE bytes less.
extent_removed(before, after, base) ==
    /\ \A i \in DOMAIN after : inside_some(after[i], before)
    /\ \A i \in DOMAIN after :
          \/ after[i].nvm_offset + after[i].size <= base
          \/ base + NVM_SLAB_SIZE <= after[i].nvm_offset
    /\ \A i \in 1 .. Len(after) - 1 :
          after[i].nvm_offset + after[i].size <= after[i + 1].nvm_offset
    /\ free_size(after, 1) = free_size(before, 1) - NVM_SLAB_SIZE

\* C9: a restore of an address whose slab extent has no index entry and lies
\* inside one free segment returns 0; afterwards a new slab of the class of
\* size is indexed at the slab base and linked on the list of CPU 0 for that
\* class, exactly that extent is gone from the free list, the bit of the
\* block of the address is set and allocated_block_count is 1.
C9_RestoreNewSlab ==
    [][ (/\ hist'.op = "restore"
         /\ owning_slab(Allocator, hist'.ptr) = NULL
         /\ inside_some([nvm_offset |-> slab_base_of(hist'.ptr), size |-> NVM_SLAB_SIZE],
                        space_manager))
          => /\ hist'.ret = 0
             /\ owning_slab(Allocator', hist'.ptr) # NULL
             /\ owning_slab(Allocator', hist'.ptr) \notin DOMAIN slabs
             /\ LET self == slabs'[owning_slab(Allocator', hist'.ptr)]
                IN  /\ self.size_type_id = hist'.sc
                    /\ self.nvm_base_offset = slab_base_of(hist'.ptr)
                    /\ IS_BIT_SET(self.bitmap,
                                  (hist'.ptr - NvmBase - slab_base_of(hist'.ptr))
                                      \div get_block_size_from_sc_id(hist'.sc))
                    /\ self.allocated_block_count = 1
             /\ owning_slab(Allocator', hist'.ptr)
                    \in list_slabs(slabs', cpu_heaps'[0][hist'.sc])
             /\ extent_removed(space_manager, space_manager', slab_base_of(hist'.ptr)) ]_vars

\* A restore has just made a slab of the 512-byte class in front of an older
\* slab of the list of CPU 0, block 1 marked.
C9_Witness ==
    /\ hist.op = "restore"
    /\ hist.ret = 0
    /\ hist.sc = SC_512B
    /\ cpu_heaps[0][SC_512B] = owning_slab(Allocator, hist.ptr)
    /\ slabs[cpu_heaps[0][SC_512B]].next_in_chain # NULL
    /\ slabs[cpu_heaps[0][SC_512B]].bitmap = {1}
    /\ slabs[cpu_heaps[0][SC_512B]].allocated_block_count = 1

\* C10: a restore whose slab is indexed with another size class than the class
\* of size returns -1 and leaves every slab, the index, the per-CPU lists and
\* the free list as they were.
C10_RestoreClassMismatch ==
    [][ (/\ hist'.op = "restore"
         /\ owning_slab(Allocator, hist'.ptr) # NULL
         /\ slabs[owning_slab(Allocator, hist'.ptr)].size_type_id # hist'.sc)
          => /\ hist'.ret = -1
             /\ Allocator' = Allocator
             /\ held' = held ]_vars

\* A restore of the 512-byte class has just been turned away by a slab of the
\* 4K class that holds a block.
C10_Witness ==
    /\ hist.op = "restore"
    /\ hist.ret = -1
    /\ hist.sc = SC_512B
    /\ owning_slab(Allocator, hist.ptr) # NULL
    /\ slabs[owning_slab(Allocator, hist.ptr)].size_type_id = SC_4K
    /\ slabs[owning_slab(Allocator, hist.ptr)].allocated_block_count = 1

\* The slabs that have an entry in the slab index.
indexed_slabs(table) == {table[e[1]][e[2]].slab_ptr : e \in index_entries(table)}

\* No thread is inside nvm_malloc or nvm_free.
no_call_in_progress ==
    /\ pc["producer"] \in {"loop", "publish", "done"}
    /\ pc["consumer"] \in {"loop", "clear", "done"}

restore_block_idx(nvm_ptr, sc_id) ==
    (nvm_ptr - NvmBase - slab_base_of(nvm_ptr)) \div get_block_size_from_sc_id(sc_id)

\* C11: nvm_slab_set_bitmap_at_idx is idempotent.  Called by a restore on a
\* slab of the right class, it returns 0; when the bit of the block was
\* clear it sets the bit and adds one to allocated_block_count; when the
\* bit was set (so on every second call for the same block) it leaves the
\* slab, and with it the whole allocator, unchanged.
C11_RestoreMarkIdempotent ==
    [][ (/\ hist'.op = "restore"
         /\ owning_slab(Allocator, hist'.ptr) # NULL
         /\ slabs[owning_slab(Allocator, hist'.ptr)].size_type_id = hist'.sc)
          => LET p == owning_slab(Allocator, hist'.ptr)
                 idx == restore_block_idx(hist'.ptr, hist'.sc)
             IN  /\ hist'.ret = 0
                 /\ IS_BIT_SET(slabs'[p].bitmap, idx)
                 /\ IF IS_BIT_SET(slabs[p].bitmap, idx)
                    THEN Allocator' = Allocator
                    ELSE /\ slabs'[p].bitmap = SET_BIT(slabs[p].bitmap, idx)
                         /\ slabs'[p].allocated_block_count
                               = slabs[p].allocated_block_count + 1
                 /\ (hist.op = "restore" /\ hist.ret = 0 /\ hist.ptr = hist'.ptr
                       /\ hist.size = hist'.size) => Allocator' = Allocator ]_vars

\* Restore of block 1, an nvm_malloc that takes blocks 0 and 2 into the ring
\* and hands out block 0, and the restore of block 1 again: the count is 2.
C11_Witness ==
    /\ hist.op = "restore"
    /\ hist.ret = 0
    /\ nops = 3
    /\ owning_slab(Allocator, hist.ptr) # NULL
    /\ DOMAIN slabs = {owning_slab(Allocator, hist.ptr)}
    /\ slabs[owning_slab(Allocator, hist.ptr)].bitmap = {0, 1, 2}
    /\ slabs[owning_slab(Allocator, hist.ptr)].allocated_block_count = 2
    /\ slabs[owning_slab(Allocator, hist.ptr)].cache_count = 1

\* The indexed slabs of allocator a in which nvm_ptr is the start of a block:
\* nvm_ptr = base + nvm_base_offset + block_idx * block_size for a block_idx
\* below total_block_count (block_idx is the quotient, and no other fits).
slabs_with_block(a, nvm_ptr) ==
    {p \in indexed_slabs(a.slab_lookup_table) :
        LET d == nvm_ptr - NvmBase - a.slabs[p].nvm_base_offset
        IN  /\ d >= 0
            /\ d % a.slabs[p].block_size = 0
            /\ d \div a.slabs[p].block_size < a.slabs[p].total_block_count}

\* C12: an address nvm_malloc returns is the start of a block of exactly one
\* indexed slab, a slab of the class of the request; its offset from the
\* base is a multiple of the block size; and nvm_free of a held address
\* frees, in that one slab, the block with that index and touches nothing
\* else.
C12_AddressBijective ==
    [][ /\ (hist'.op = "malloc" /\ hist'.ret # NULL) =>
              /\ Cardinality(slabs_with_block(Allocator', hist'.ret)) = 1
              /\ \A p \in slabs_with_block(Allocator', hist'.ret) :
                    /\ slabs'[p].size_type_id = hist'.sc
                    /\ p = owning_slab(Allocator', hist'.ret)
              /\ (hist'.ret - NvmBase) % get_block_size_from_sc_id(hist'.sc) = 0
        /\ (hist'.op = "free" /\ hist'.ptr \in held) =>
              /\ Cardinality(slabs_with_block(Allocator, hist'.ptr)) = 1
              /\ \A p \in slabs_with_block(Allocator, hist'.ptr) :
                    Allocator' = [Allocator EXCEPT !.slabs[p] =
                        nvm_slab_free(slabs[p],
                            (hist'.ptr - NvmBase - slabs[p].nvm_base_offset)
                                \div slabs[p].block_size)] ]_vars

\* Block 1 of a slab of the 16-byte class has been freed while block 0 of
\* that slab and a block of a slab of another class are held.
C12_Witness ==
    /\ hist.op = "free"
    /\ hist.ptr # NULL
    /\ owning_slab(Allocator, hist.ptr) # NULL
    /\ slabs[owning_slab(Allocator, hist.ptr)].block_size = 16
    /\ hist.ptr - NvmBase - slab_base_of(hist.ptr) = 16
    /\ Cardinality(held) = 1
    /\ \A q \in held : slab_base_of(q) = slab_base_of(hist.ptr)

\* The smallest size class whose block holds size bytes.
smallest_class(size) ==
    CHOOSE j \in 0 .. SC_COUNT - 1 :
        /\ get_block_size_from_sc_id(j) >= size
        /\ \A k \in 0 .. SC_COUNT - 1 :
              get_block_size_from_sc_id(k) >= size
                  => get_block_size_from_sc_id(j) <= get_block_size_from_sc_id(k)

\* C13: for every size from 1 to 4096 an nvm_malloc that returns an address
\* returns a block of a slab of the smallest class whose block size is at
\* least size (map_size_to_sc_id gives that class), and it returns one
\* whenever its list has a slab that is not full or the region has a free
\* slab extent.
C13_SmallestClass ==
    [][ (/\ hist'.op = "malloc"
         /\ hist'.size >= 1
         /\ hist'.size <= get_block_size_from_sc_id(SC_COUNT - 1))
          => /\ hist'.sc = smallest_class(hist'.size)
             /\ (\/ ~region_exhausted(space_manager)
                 \/ first_not_full(slabs, cpu_heaps[hist'.cpu][hist'.sc]) # NULL)
                    => hist'.ret # NULL
             /\ hist'.ret # NULL =>
                   LET p == owning_slab(Allocator', hist'.ret)
                   IN  /\ p # NULL
                       /\ p \in slabs_with_block(Allocator', hist'.ret)
                       /\ slabs'[p].size_type_id = smallest_class(hist'.size)
                       /\ slabs'[p].block_size >= hist'.size ]_vars

\* nvm_malloc(9) has been served from a slab of the 16-byte class.
C13_Witness ==
    /\ hist.op = "malloc"
    /\ hist.size = 9
    /\ hist.ret # NULL
    /\ slabs[owning_slab(Allocator, hist.ret)].block_size = 16
    /\ slabs[owning_slab(Allocator, hist.ret)].allocated_block_count = 2

\* C14: nvm_malloc(0) and nvm_malloc of more than 4096 bytes return NULL,
\* nvm_free(NULL) returns, and none of them changes the free list, the index,
\* a per-CPU list or a slab.
C14_InvalidArguments ==
    [][ /\ (/\ hist'.op = "malloc"
             /\ \/ hist'.size = 0
                \/ hist'.size > get_block_size_from_sc_id(SC_COUNT - 1))
              => /\ hist'.ret = NULL
                 /\ Allocator' = Allocator
                 /\ held' = held
        /\ (hist'.op = "free" /\ hist'.ptr = NULL)
              => /\ Allocator' = Allocator
                 /\ held' = held ]_vars

\* nvm_malloc of one byte more than the largest block has returned NULL with
\* two blocks held.
C14_Witness ==
    /\ hist.op = "malloc"
    /\ hist.size = get_block_size_from_sc_id(SC_COUNT - 1) + 1
    /\ hist.ret = NULL
    /\ Cardinality(held) = 2

\* C15: nvm_free of an address whose slab base offset has no entry in the
\* slab index returns and leaves the allocator as it was.
C15_UnmanagedFree ==
    [][ (/\ hist'.op = "free"
         /\ hist'.ptr # NULL
         /\ owning_slab(Allocator, hist'.ptr) = NULL)
          => /\ Allocator' = Allocator
             /\ held' = held ]_vars

\* nvm_free of an address in a free extent of a region that has slabs with
\* held blocks; the extent is still free.
C15_Witness ==
    /\ hist.op = "free"
    /\ hist.ptr # NULL
    /\ owning_slab(Allocator, hist.ptr) = NULL
    /\ Cardinality(held) = 2
    /\ inside_some([nvm_offset |-> slab_base_of(hist.ptr), size |-> NVM_SLAB_SIZE],
                   space_manager)

\* The arguments nvm_allocator_create accepts.
valid_create_args(nvm_base_addr, nvm_size_bytes) ==
    nvm_base_addr # NULL /\ nvm_size_bytes >= NVM_SLAB_SIZE

\* C16: the global allocator has two states.  nvm_allocator_create succeeds
\* from the uninitialized state (with valid arguments) and is turned away,
\* the instance untouched, while initialized; nvm_allocator_destroy leaves
\* it uninitialized from either state and changes nothing when there is no
\* instance; nvm_malloc, nvm_free and restore without an instance return
\* NULL, nothing and -1, without ending the process and without a change.
C16_Lifecycle ==
    [][ /\ hist'.op = "create" =>
              IF initialized
              THEN /\ hist'.ret = -1
                   /\ initialized'
                   /\ Allocator' = Allocator
                   /\ held' = held
                   /\ nvm_size' = nvm_size
              ELSE valid_create_args(hist'.ptr, hist'.size)
                      => (hist'.ret = 0 /\ initialized')
        /\ hist'.op = "destroy" =>
              /\ ~initialized'
              /\ ~initialized => Allocator' = Allocator
        /\ (~initialized /\ hist'.op \notin {"create", "destroy"}) =>
              /\ hist'.op # "abort"
              /\ hist'.op = "malloc" => hist'.ret = NULL
              /\ hist'.op = "restore" => hist'.ret = -1
              /\ ~initialized'
              /\ Allocator' = Allocator
              /\ held' = held ]_vars

\* C17: nvm_allocator_create with a NULL base or with a size below
\* NVM_SLAB_SIZE returns -1, leaves no instance and no host memory allocated,
\* and an nvm_allocator_create with valid arguments right after a failed one
\* succeeds.
C17_CreateRejectsBadArguments ==
    [][ /\ (/\ hist'.op = "create"
             /\ ~initialized
             /\ ~valid_create_args(hist'.ptr, hist'.size))
              => /\ hist'.ret = -1
                 /\ ~initialized'
                 /\ Allocator' = Allocator
                 /\ nvm_allocator_create_impl(hist'.ptr, hist'.size).host = {}
        /\ (/\ hist.op = "create"
             /\ hist.ret = -1
             /\ ~initialized
             /\ hist'.op = "create"
             /\ valid_create_args(hist'.ptr, hist'.size))
              => /\ hist'.ret = 0
                 /\ initialized'
                 /\ space_manager' = <<create_segment_node(NVM_START_OFFSET, hist'.size)>> ]_vars

\* nvm_allocator_create with a base and one byte less than a slab has been
\* turned away after an instance had been destroyed.
C17_Witness ==
    /\ hist.op = "create"
    /\ hist.ret = -1
    /\ hist.ptr # NULL
    /\ hist.size = NVM_SLAB_SIZE - 1
    /\ ~initialized
    /\ nops >= 3

\* space_manager_free_slab reaches create_segment_node: neither neighbour
\* of the extent abuts it.
free_slab_needs_node(m, offset_to_free) ==
    /\ \A i \in 1 .. Len(m) : m[i].nvm_offset + m[i].size # offset_to_free
    /\ \A i \in 1 .. Len(m) : m[i].nvm_offset # offset_to_free + NVM_SLAB_SIZE

\* C18: a space manager call that fails reports it and leaves the free list
\* as it was: space_manager_alloc_slab without a segment of a slab,
\* space_manager_alloc_at_offset without a covering segment or without
\* host memory for the node of the tail, space_manager_free_slab without
\* host memory for the node of the extent.
C18_FailureLeavesFreeList ==
    [][ /\ (sm_hist'.op = "alloc_slab" /\ sm_hist'.ret = NO_OFFSET)
              => manager' = manager
        /\ (sm_hist'.op = "alloc_at" /\ covering_node(manager, sm_hist'.offset, 1) = 0)
              => (sm_hist'.ret = -1 /\ manager' = manager)
        /\ (sm_hist'.op = "alloc_at" /\ sm_hist'.ret = -1)
              => manager' = manager
        /\ (/\ sm_hist'.op = "free_slab"
             /\ ~sm_hist'.node_ok
             /\ free_slab_needs_node(manager, sm_hist'.offset))
              => (sm_hist'.ret # 0 /\ manager' = manager) ]_vars

\* C19: space_manager_free_slab of the offset the preceding
\* space_manager_alloc_slab returned gives back the free list that
\* space_manager_alloc_slab started from.
C19_FreeUndoesAlloc ==
    [][ (/\ sm_hist.op = "alloc_slab"
         /\ sm_hist.ret # NO_OFFSET
         /\ sm_hist'.op = "free_slab"
         /\ sm_hist'.offset = sm_hist.ret)
           => manager' = sm_hist.before ]_vars

\* space_manager_free_slab has just given back what space_manager_alloc_slab
\* takes from the list as it is now, a list of two segments, and the list
\* before the free is the one that space_manager_alloc_slab leaves.
C19_Witness ==
    /\ sm_hist.op = "free_slab"
    /\ Len(manager) = 2
    /\ space_manager_alloc_slab(manager).ret = sm_hist.offset
    /\ space_manager_alloc_slab(manager).manager = sm_hist.before
    /\ sm_hist.before # manager

\* Number of segments of m that abut the extent at offset_to_free.
abutting(m, offset_to_free) ==
    Cardinality({i \in 1 .. Len(m) :
                   \/ m[i].nvm_offset + m[i].size = offset_to_free
                   \/ m[i].nvm_offset = offset_to_free + NVM_SLAB_SIZE})

\* C20: space_manager_free_slab coalesces completely.  No two segments of
\* the list abut; once every taken extent is back the list is the one
\* segment it was created with; a free adds a segment when no neighbour
\* abuts, keeps the number with one and removes one with two.
C20_CompleteCoalescing ==
    /\ [](\A i \in 1 .. Len(manager) - 1 :
            manager[i].nvm_offset + manager[i].size < manager[i + 1].nvm_offset)
    /\ [](allocated = {} =>
            manager = <<create_segment_node(NVM_START_OFFSET,
                                            ManagerSlabs * NVM_SLAB_SIZE)>>)
    /\ [][ sm_hist'.op = "free_slab" =>
             Len(manager') = Len(manager) + 1 - abutting(manager, sm_hist'.offset) ]_vars

\* The last free of: three space_manager_alloc_slab, then free of the second
\* extent (two segments), of the first (two segments) and now of the third,
\* which merged with both neighbours into the original segment.
C20_Witness ==
    /\ sm_hist.op = "free_slab"
    /\ sm_hist.offset = NVM_START_OFFSET + 2 * NVM_SLAB_SIZE
    /\ sm_hist.before =
          <<create_segment_node(NVM_START_OFFSET, 2 * NVM_SLAB_SIZE),
            create_segment_node(NVM_START_OFFSET + 3 * NVM_SLAB_SIZE,
                                (ManagerSlabs - 3) * NVM_SLAB_SIZE)>>
    /\ allocated = {}
    /\ manager = <<create_segment_node(NVM_START_OFFSET,
                                       ManagerSlabs * NVM_SLAB_SIZE)>>

C22_ExtentTakenOnce ==
    /\ [](\A p, q \in DOMAIN slabs :
            p # q => slabs[p].nvm_base_offset # slabs[q].nvm_base_offset)
    /\ [](/\ indexed_slabs(slab_lookup_table) = DOMAIN slabs
          /\ Cardinality(index_entries(slab_lookup_table)) = Cardinality(DOMAIN slabs)
          /\ \A p \in DOMAIN slabs :
                slab_hashtable_lookup(slab_lookup_table, slabs[p].nvm_base_offset) = p)
    /\ [](\A p \in DOMAIN slabs : \A i \in DOMAIN space_manager :
            \/ space_manager[i].nvm_offset + space_manager[i].size
                  <= slabs[p].nvm_base_offset
            \/ slabs[p].nvm_base_offset + NVM_SLAB_SIZE <= space_manager[i].nvm_offset)
    /\ [][ \A t \in Threads :
             (pc[t] = "central" /\ pc'[t] = "link") =>
                /\ slabs'[local'[t].target_slab].nvm_base_offset
                      \notin {slabs[p].nvm_base_offset : p \in DOMAIN slabs}
                /\ local'[t].target_slab \notin DOMAIN slabs ]_vars

\* Two threads on different CPUs are in the slow path at once, each with
\* the slab of the extent it took, neither linked yet.
C22_Witness ==
    /\ pc = [t1 |-> "link", t2 |-> "link"]
    /\ local["t1"].cpu_id # local["t2"].cpu_id
    /\ local["t1"].target_slab # local["t2"].target_slab
    /\ slabs[local["t1"].target_slab].nvm_base_offset
          # slabs[local["t2"].target_slab].nvm_base_offset

\* The per-CPU lists, as <<cpu, class>>, that slab p is linked on.
lists_of(a, p) ==
    {cj \in (DOMAIN a.cpu_heaps) \X (0 .. SC_COUNT - 1) :
        p \in list_slabs(a.slabs, a.cpu_heaps[cj[1]][cj[2]])}

\* C27: whenever no call is in progress, every indexed slab is linked on
\* exactly one per-CPU list, a list of its own size class, every linked slab
\* is indexed, and nvm_allocator_destroy_impl, which walks the lists, leaves
\* no slab behind; in every interleaving of nvm_malloc calls, the threads on
\* the same CPU or not.
C27_EverySlabOnOneList ==
    (\A t \in DOMAIN pc : pc[t] = "idle") =>
        /\ \A p \in indexed_slabs(slab_lookup_table) :
              /\ Cardinality(lists_of(Allocator, p)) = 1
              /\ \A cj \in lists_of(Allocator, p) : cj[2] = slabs[p].size_type_id
        /\ linked_slabs(Allocator) \subseteq indexed_slabs(slab_lookup_table)
        /\ DOMAIN nvm_allocator_destroy_impl(Allocator) = {}

RECURSIVE list_order(_, _)
\* The slabs on the chain that starts at head, in the order of the chain.
list_order(heap, head) ==
    IF head = NULL THEN <<>> ELSE <<head>> \o list_order(heap, heap[head].next_in_chain)

\* The slabs of a list, in list order, with a block that no caller holds.
not_full_in(heap, head) ==
    SelectSeq(list_order(heap, head),
              LAMBDA p : heap[p].allocated_block_count < heap[p].total_block_count)

\* C23: an nvm_malloc of a valid size goes to the space manager exactly
\* when the list of its CPU and class has no slab with allocated_block_count
\* below total_block_count; it then takes an extent (when one is free) for a
\* new slab that it indexes and puts at the head of that list, and serves the
\* request from it.  Otherwise it serves the request from the first such
\* slab in list order and leaves the free list, the index and the lists as
\* they are.
C23_NewSlabOnlyWhenAllFull ==
    [][ (hist'.op = "malloc" /\ hist'.sc # SC_COUNT /\ hist'.size # 0) =>
          LET head == cpu_heaps[hist'.cpu][hist'.sc]
              usable == not_full_in(slabs, head)
              new_head == cpu_heaps'[hist'.cpu][hist'.sc]
          IN  IF usable # <<>>
              THEN /\ space_manager' = space_manager
                   /\ slab_lookup_table' = slab_lookup_table
                   /\ cpu_heaps' = cpu_heaps
                   /\ DOMAIN slabs' = DOMAIN slabs
                   /\ hist'.ret # NULL
                   /\ owning_slab(Allocator, hist'.ret) = usable[1]
                   /\ \A p \in DOMAIN slabs : p # usable[1] => slabs'[p] = slabs[p]
              ELSE IF region_exhausted(space_manager)
              THEN /\ hist'.ret = NULL
                   /\ Allocator' = Allocator
              ELSE /\ free_size(space_manager', 1)
                        = free_size(space_manager, 1) - NVM_SLAB_SIZE
                   /\ new_head \notin DOMAIN slabs
                   /\ DOMAIN slabs' = DOMAIN slabs \cup {new_head}
                   /\ slabs'[new_head].next_in_chain = head
                   /\ slabs'[new_head].size_type_id = hist'.sc
                   /\ slabs'[new_head].nvm_base_offset
                        \notin indexed_offsets(slab_lookup_table)
                   /\ owning_slab(Allocator', hist'.ret) = new_head
                   /\ hist'.ret # NULL ]_vars

\* The ninth nvm_malloc(512) on a CPU: the eight before it filled the slab
\* of the list, and this one got its block from a second slab, now the head
\* of the list before the full one.
C23_Witness ==
    /\ hist.op = "malloc"
    /\ hist.sc = SC_512B
    /\ hist.ret # NULL
    /\ nops = 9
    /\ LET head == cpu_heaps[hist.cpu][SC_512B]
       IN  /\ head # NULL
           /\ owning_slab(Allocator, hist.ret) = head
           /\ slabs[head].allocated_block_count = 1
           /\ slabs[head].next_in_chain # NULL
           /\ nvm_slab_is_full(slabs[slabs[head].next_in_chain])
           /\ slabs[slabs[head].next_in_chain].total_block_count = 8

\* The block an address lies in: its slab and its block index.
block_of(a, nvm_ptr) ==
    <<owning_slab(a, nvm_ptr),
      block_idx_in(a.slabs[owning_slab(a, nvm_ptr)], nvm_ptr)>>

\* C24: a block that a caller holds after a restore that returned 0 (or
\* after an nvm_malloc) is not returned by a later nvm_malloc before it is
\* freed, whatever calls came before the restore.
C24_RestoredBlockStaysTaken ==
    [][ (hist'.op = "malloc" /\ hist'.ret # NULL) =>
          \A nvm_ptr \in held :
              block_of(Allocator', nvm_ptr) # block_of(Allocator', hist'.ret) ]_vars

\* The block indices in the ring of a slab, from cache_head on.
ring(self) ==
    [k \in 1 .. self.cache_count |->
        self.free_block_buffer[(self.cache_head + k - 1) % SLAB_CACHE_SIZE]]

\* No block index is in the ring twice.
ring_unique(self) ==
    \A i, k \in DOMAIN ring(self) : i # k => ring(self)[i] # ring(self)[k]

\* C25: an address freed twice, no nvm_malloc having returned it in between,
\* does not put its block index in the ring twice, and no nvm_malloc returns
\* a block that a caller holds.
C25_NoDoublePush ==
    /\ [](\A p \in DOMAIN slabs : ring_unique(slabs[p]))
    /\ [][ (hist'.op = "malloc" /\ hist'.ret # NULL) => hist'.ret \notin held ]_vars

\* The block indices that are in the ring of a slab.
ring_set(self) == {ring(self)[k] : k \in DOMAIN ring(self)}

\* C26: in every state of every slab cache_count is at most SLAB_CACHE_SIZE
\* and every block index in the ring is there once, is below
\* total_block_count and has its bit set; and a step clears a bit only of an
\* index that it takes out of the ring.
C26_RingWellFormed ==
    /\ [](\A p \in DOMAIN slabs :
            /\ slabs[p].cache_count <= SLAB_CACHE_SIZE
            /\ ring_unique(slabs[p])
            /\ \A n \in ring_set(slabs[p]) :
                  /\ n < slabs[p].total_block_count
                  /\ IS_BIT_SET(slabs[p].bitmap, n))
    /\ [][ \A p \in DOMAIN slabs \cap DOMAIN slabs' :
             \A n \in slabs[p].bitmap \ slabs'[p].bitmap :
                 n \in ring_set(slabs[p]) \ ring_set(slabs'[p]) ]_vars

\* The slabs of a list that have no allocated block.
empty_in(heap, head) ==
    {k \in DOMAIN list_order(heap, head) :
        heap[list_order(heap, head)[k]].allocated_block_count = 0}

\* C28: in every state every per-CPU list of every size class holds at most
\* one slab whose allocated_block_count is 0.
C28_AtMostOneEmptySlab ==
    \A c \in DOMAIN Allocator.cpu_heaps : \A sc \in 0 .. SC_COUNT - 1 :
        Cardinality(empty_in(slabs, Allocator.cpu_heaps[c][sc])) <= 1

\* The steps of a call made with global_lock held: space_manager_alloc_slab,
\* nvm_slab_create and slab_hashtable_insert of nvm_malloc_impl, and
\* slab_hashtable_lookup of nvm_free_impl.
InCentral == {"scan", "central", "lookup"}

\* The steps of a slab operation: nvm_slab_alloc, nvm_slab_free,
\* nvm_slab_set_bitmap_at_idx.
InSlab == {"read", "write"}

C31_SelectedSlabServes ==
    [][ \A t \in Threads :
          pc[t] = "write" /\ local[t].op = "malloc" /\ pc'[t] = "idle"
             => hist'.ret # NULL ]_vars

\* C32: on one slab, with nvm_slab_free called for held indices only,
\* nvm_slab_alloc fails exactly when allocated_block_count equals
\* total_block_count, a failing call changes nothing, and a call that succeeds
\* returns an index below total_block_count that the caller does not hold; so
\* the number of held blocks is allocated_block_count, and the slab gives all
\* its blocks before it fails, the first time and every time after.
C32_AllocFailsOnlyWhenFull ==
    /\ [][ hist'.op = "slab_alloc" /\ nops' = nops + 1 =>
             /\ hist'.ret = -1 <=> slab.allocated_block_count = slab.total_block_count
             /\ hist'.ret = -1 => slabs' = slabs /\ held' = held
             /\ hist'.ret = 0 =>
                   /\ hist'.ptr < slab.total_block_count
                   /\ hist'.ptr \notin held ]_vars
    /\ [](hist.op \in {"slab_create", "slab_alloc", "slab_free"} =>
             slab.allocated_block_count = Cardinality(held))

\* The slab has been filled, emptied and filled again, and the call after
\* that has failed.
C32_Witness ==
    /\ hist.op = "slab_alloc" /\ hist.ret = -1
    /\ nops = 3 * slab.total_block_count + 1
    /\ local.nfree = slab.total_block_count
    /\ Cardinality(held) = slab.total_block_count

\* The clear bits of a slab, lowest first, that one refill reserves.
lowest_clear(self) ==
    {n \in 0 .. self.total_block_count - 1 :
        /\ ~IS_BIT_SET(self.bitmap, n)
        /\ Cardinality({m \in 0 .. n - 1 : ~IS_BIT_SET(self.bitmap, m)})
              < SLAB_CACHE_BATCH_SIZE}

\* C33: nvm_slab_alloc refills only when the ring is empty, and the refill
\* sets the lowest clear bits, SLAB_CACHE_BATCH_SIZE of them at most, and puts
\* each in the ring once.  So on a fresh slab the k-th allocation without a
\* free in between returns index k - 1, and after k of them
\* allocated_block_count is k, cache_count is (BATCH - k mod BATCH) mod BATCH
\* and the bitmap has BATCH * ceil(k / BATCH) bits set.
C33_RefillInBatches ==
    /\ [][ hist'.op = "slab_alloc" /\ nops' = nops + 1 =>
             /\ slab.cache_count # 0 => slab'.bitmap = slab.bitmap
             /\ slab.cache_count = 0 =>
                   /\ slab'.bitmap = slab.bitmap \cup lowest_clear(slab)
                   /\ hist'.ret = 0 =>
                         /\ ring_set(slab') \cup {hist'.ptr} = lowest_clear(slab)
                         /\ slab'.cache_count + 1 = Cardinality(lowest_clear(slab))
             /\ local.nfree = 0 /\ nops < slab.total_block_count =>
                   hist'.ret = 0 /\ hist'.ptr = nops ]_vars
    /\ [](hist.op \in {"slab_create", "slab_alloc"} /\ local.nfree = 0
               /\ nops <= slab.total_block_count =>
             /\ slab.allocated_block_count = nops
             /\ slab.cache_count =
                  (SLAB_CACHE_BATCH_SIZE - (nops % SLAB_CACHE_BATCH_SIZE))
                     % SLAB_CACHE_BATCH_SIZE
             /\ popcount(slab.bitmap) =
                  SLAB_CACHE_BATCH_SIZE *
                     ((nops + SLAB_CACHE_BATCH_SIZE - 1) \div SLAB_CACHE_BATCH_SIZE))

\* The allocation after SLAB_CACHE_BATCH_SIZE allocations on a fresh slab has
\* refilled the ring a second time.
C33_Witness ==
    /\ hist.op = "slab_alloc" /\ hist.ret = 0
    /\ local.nfree = 0
    /\ nops = SLAB_CACHE_BATCH_SIZE + 1
    /\ hist.ptr = SLAB_CACHE_BATCH_SIZE
    /\ slab.cache_count = SLAB_CACHE_BATCH_SIZE - 1
    /\ slab.allocated_block_count = SLAB_CACHE_BATCH_SIZE + 1
    /\ popcount(slab.bitmap) = 2 * SLAB_CACHE_BATCH_SIZE

\* Number of entries drain_cache takes out of a full ring.
count_to_drain == SLAB_CACHE_SIZE - SLAB_CACHE_BATCH_SIZE

\* C34: an nvm_slab_free that finds the ring full first takes the oldest
\* SLAB_CACHE_SIZE - SLAB_CACHE_BATCH_SIZE entries out of it, from the head,
\* and clears their bits and no other, then puts the freed index at the tail:
\* cache_count is SLAB_CACHE_BATCH_SIZE + 1 and that many bits fewer are set.
\* An nvm_slab_free that finds room in the ring clears no bit and puts the
\* index at the tail.
C34_DrainOnFullRing ==
    [][ hist'.op = "slab_free" /\ nops' = nops + 1 =>
          IF slab.cache_count = SLAB_CACHE_SIZE
          THEN /\ slab'.bitmap =
                    slab.bitmap \ {ring(slab)[k] : k \in 1 .. count_to_drain}
               /\ ring(slab') =
                    Append(SubSeq(ring(slab), count_to_drain + 1, SLAB_CACHE_SIZE),
                           hist'.ptr)
               /\ slab'.cache_count = SLAB_CACHE_BATCH_SIZE + 1
               /\ popcount(slab'.bitmap) = popcount(slab.bitmap) - count_to_drain
          ELSE /\ slab'.bitmap = slab.bitmap
               /\ ring(slab') = Append(ring(slab), hist'.ptr) ]_vars

\* An nvm_slab_free has found the ring full and has drained it: the freed
\* index is the last of SLAB_CACHE_BATCH_SIZE + 1 in the ring, and the bits of
\* the blocks returned first are clear again below bits that are set.
C34_Witness ==
    /\ hist.op = "slab_free"
    /\ slab.cache_count = SLAB_CACHE_BATCH_SIZE + 1
    /\ ring(slab)[SLAB_CACHE_BATCH_SIZE + 1] = hist.ptr
    /\ local.nfree = SLAB_CACHE_SIZE + 1
    /\ \A n \in 0 .. count_to_drain - 1 : ~IS_BIT_SET(slab.bitmap, n)
    /\ popcount(slab.bitmap) = slab.allocated_block_count + SLAB_CACHE_BATCH_SIZE + 1

\* C35 as the specification has it: after SLAB_CACHE_SIZE allocations on a
\* fresh slab and the free of these blocks in allocation order cache_count is
\* SLAB_CACHE_SIZE, and after one more allocation and the free of its block
\* the ring has been drained: cache_count and the number of set bits are
\* SLAB_CACHE_BATCH_SIZE + 1.
C35_DrainBoundary ==
    /\ local.script = 2 * SLAB_CACHE_SIZE => slab.cache_count = SLAB_CACHE_SIZE
    /\ local.script = 2 * SLAB_CACHE_SIZE + 2 =>
          /\ slab.cache_count = SLAB_CACHE_BATCH_SIZE + 1
          /\ popcount(slab.bitmap) = SLAB_CACHE_BATCH_SIZE + 1

\* C35, amended: in that scenario the allocation that follows the frees
\* takes an index out of the full ring, so the free of its block finds room
\* in the ring and drains nothing: it clears no bit and puts the index back.
\* With SLAB_CACHE_SIZE twice SLAB_CACHE_BATCH_SIZE, as in NvmDefs.h,
\* cache_count and the number of set bits are SLAB_CACHE_SIZE both before
\* that allocation and after that free.
C35_NoDrainAtBoundary ==
    /\ [](SLAB_CACHE_SIZE = 2 * SLAB_CACHE_BATCH_SIZE
             /\ local.script \in {2 * SLAB_CACHE_SIZE, 2 * SLAB_CACHE_SIZE + 2} =>
               /\ slab.cache_count = SLAB_CACHE_SIZE
               /\ popcount(slab.bitmap) = SLAB_CACHE_SIZE
               /\ slab.allocated_block_count = 0)
    /\ [][ local.script = 2 * SLAB_CACHE_SIZE + 1
             /\ local'.script = 2 * SLAB_CACHE_SIZE + 2 =>
               /\ slab.cache_count < SLAB_CACHE_SIZE
               /\ slab'.bitmap = slab.bitmap
               /\ slab'.cache_count = slab.cache_count + 1 ]_vars

\* The scenario has been run to its end.
C35_Witness ==
    /\ local.script = 2 * SLAB_CACHE_SIZE + 2
    /\ Len(local.allocated_indices) = SLAB_CACHE_SIZE + 1
    /\ hist.op = "slab_free"
    /\ hist.ptr = local.allocated_indices[SLAB_CACHE_SIZE + 1]
    /\ held = {}

\* The extent of one slab at offset.
slab_extent(offset) == [nvm_offset |-> offset, size |-> NVM_SLAB_SIZE]

fitting(list) == {k \in DOMAIN list : list[k].size >= NVM_SLAB_SIZE}

\* C37: space_manager_alloc_slab returns the offset of the first segment of
\* the list, which is the lowest in address, with room for a slab, and takes
\* exactly the extent at that offset out of the free list: it unlinks a
\* segment of NVM_SLAB_SIZE and moves the front of a larger one.  It fails
\* only when no segment has room, and then changes nothing.  The first call
\* on a new manager returns the start offset and leaves one segment that
\* begins one slab later.
C37_AllocSlabFirstFit ==
    /\ [][ sm_hist'.op = "alloc_slab" =>
             IF fitting(manager) = {}
             THEN sm_hist'.ret = NO_OFFSET /\ manager' = manager
             ELSE LET i == CHOOSE k \in fitting(manager) :
                              \A j \in fitting(manager) :
                                  /\ k <= j
                                  /\ manager[k].nvm_offset <= manager[j].nvm_offset
                  IN  /\ sm_hist'.ret = manager[i].nvm_offset
                      /\ extent_removed(manager, manager', sm_hist'.ret)
                      /\ IF manager[i].size = NVM_SLAB_SIZE
                         THEN manager' = [j \in 1 .. Len(manager) - 1 |->
                                            IF j < i THEN manager[j] ELSE manager[j + 1]]
                         ELSE manager' = [manager EXCEPT
                                            ![i] = [nvm_offset |-> @.nvm_offset + NVM_SLAB_SIZE,
                                                    size |-> @.size - NVM_SLAB_SIZE]] ]_vars
    /\ [](sm_hist.op = "alloc_slab"
             /\ sm_hist.before = <<[nvm_offset |-> NVM_START_OFFSET,
                                    size |-> ManagerSlabs * NVM_SLAB_SIZE]>> =>
               /\ sm_hist.ret = NVM_START_OFFSET
               /\ manager = <<[nvm_offset |-> NVM_START_OFFSET + NVM_SLAB_SIZE,
                               size |-> (ManagerSlabs - 1) * NVM_SLAB_SIZE]>>)

\* An alloc_slab has passed over a first segment that is too small and has
\* taken the front of a later, larger one.
C37_Witness ==
    /\ sm_hist.op = "alloc_slab" /\ sm_hist.ret # NO_OFFSET
    /\ sm_hist.before[1].size < NVM_SLAB_SIZE
    /\ Len(manager) = Len(sm_hist.before)
    /\ sm_hist.ret > sm_hist.before[1].nvm_offset

\* C38: in every state, whatever the size nvm_allocator_create accepted, every
\* free segment starts a whole number of slabs after NVM_START_OFFSET and its
\* size is a positive multiple of NVM_SLAB_SIZE.
C38_SegmentsSlabAligned ==
    \A i \in DOMAIN space_manager :
        /\ (space_manager[i].nvm_offset - NVM_START_OFFSET) % NVM_SLAB_SIZE = 0
        /\ space_manager[i].size > 0
        /\ space_manager[i].size % NVM_SLAB_SIZE = 0

C40_RestoreUndoesPartialState ==
    /\ [][ /\ hist'.op = "restore"
           /\ map_size_to_sc_id(hist'.size) # SC_COUNT
           /\ owning_slab(Allocator, hist'.ptr) = NULL
           /\ inside_some(slab_extent(slab_base_of(hist'.ptr)), space_manager)
           /\ ~hist'.ok.slab \/ ~hist'.ok.hash
           => /\ hist'.ret # 0
              /\ space_manager' = space_manager
              /\ slab_lookup_table' = slab_lookup_table
              /\ cpu_heaps' = cpu_heaps ]_vars
    /\ [](linked_slabs(Allocator) \subseteq indexed_slabs(slab_lookup_table))

====
